---- MODULE Spec2Model ----
(***************************************************************************)
(* project-atlas: the Store (AtlasDb), its pulse / health / recommendation *)
(* logic, and the stdio framer of the MCP server.                          *)
(*                                                                         *)
(* Time is counted in days since an arbitrary positive origin (nowIso()    *)
(* and Date.now() read the same wall clock).  Row ids are the creation     *)
(* index of the row in its table (uid() only has to be fresh).  An         *)
(* optional value (T | null) is the empty sequence or a one-element        *)
(* sequence.  Text that the code inspects byte by byte (paths, slugs, the  *)
(* framer's buffer) is a sequence of one-character strings.                *)
(***************************************************************************)
EXTENDS Integers, Sequences, FiniteSets, TLC

VARIABLES
    projects,    \* table projects: sequence of rows, id = index
    quests,      \* table quests
    tasks,       \* table tasks
    now,         \* the wall clock, in days
    last,        \* the last Store call: its name, argument and return value
    sent,        \* the frames a client has written to the server's stdin
    pending,     \* their bytes not yet delivered in a "data" event
    buffer,      \* the framer's buffer
    dispatched,  \* the messages handed to handle(), in order
    hung,        \* the "data" handler is in a loop it never leaves
    env,         \* the process environment the Advisor Bridge reads
    inbox,       \* the parsed messages the framer has yet to hand to handle()
    handlers,    \* the calls of handle(), in the order they were started
    written,     \* the responses given to writeMessage, in order
    stdout,      \* the bytes written to process.stdout
    events,      \* table session_events
    journal      \* the Store mutations in the order they ran

storeVars == <<projects, quests, tasks, now, last>>
framerVars == <<sent, pending, buffer, dispatched, hung>>
serverVars == <<env, inbox, handlers, written, stdout, events, journal>>
vars == <<projects, quests, tasks, now, last, sent, pending, buffer, dispatched, hung,
          env, inbox, handlers, written, stdout, events, journal>>

----------------------------------------------------------------------------
(* Bounds of the model *)

MaxQuests == 1
MaxTasks == 3
MaxNow == 12

(* Program constants *)

SevenDays == 7
TenDays == 10
ImportedHealth == 55
DefaultEstimate == 10
DefaultPriority == 2

----------------------------------------------------------------------------
(* Optional values *)

None == <<>>
Some(v) == <<v>>
IsSome(o) == o # <<>>
Get(o) == o[1]

Max2(a, b) == IF a >= b THEN a ELSE b
Min2(a, b) == IF a <= b THEN a ELSE b

\* A clamp that forgets the lower end
clampAbove(value, min, max) == Min2(max, value)

\* core clamp(value, min, max) = Math.min(max, Math.max(min, value))
clamp(value, min, max) == Min2(max, Max2(min, value))

\* Math.round of the rational n/d (d > 0): the nearest integer, halves up.
RoundDiv(n, d) == (2 * n + d) \div (2 * d)

TASK_STATES == {"todo", "doing", "review", "done", "blocked"}
QUEST_STATES == {"todo", "active", "done", "blocked"}

----------------------------------------------------------------------------
(* slugify and the project index import *)

\* The upper-case letters of the model's texts and their lower-case forms
Uppers == <<"A", "B", "C", "G", "L", "T">>
Lowers == <<"a", "b", "c", "g", "l", "t">>

\* toLowerCase() on one character
Lower(c) ==
    IF \E i \in 1..Len(Uppers) : Uppers[i] = c
    THEN Lowers[CHOOSE i \in 1..Len(Uppers) : Uppers[i] = c]
    ELSE c

IsSlugChar(c) == c \in {"a", "b", "c", "j", "o", "p", "r", "0", "1", "2", "3", "4"}

RECURSIVE SquashDashes(_)
\* .replace(/[^a-z0-9]+/g, "-") on lower-cased text: every maximal run of
\* other characters becomes one "-"
SquashDashes(s) ==
    IF s = <<>> THEN <<>>
    ELSE IF IsSlugChar(Head(s)) THEN <<Head(s)>> \o SquashDashes(Tail(s))
    ELSE IF Len(s) > 1 /\ ~IsSlugChar(s[2]) THEN SquashDashes(Tail(s))
    ELSE <<"-">> \o SquashDashes(Tail(s))

RECURSIVE TrimLeftDash(_)
TrimLeftDash(s) ==
    IF s # <<>> /\ Head(s) = "-" THEN TrimLeftDash(Tail(s)) ELSE s

RECURSIVE TrimRightDash(_)
TrimRightDash(s) ==
    IF s # <<>> /\ s[Len(s)] = "-" THEN TrimRightDash(SubSeq(s, 1, Len(s) - 1)) ELSE s

SlugMax == 64

slugify(input) ==
    LET lowered == [i \in 1..Len(input) |-> Lower(input[i])]
        dashed == SquashDashes(lowered)
        trimmed == TrimRightDash(TrimLeftDash(dashed))
    IN  SubSeq(trimmed, 1, Min2(Len(trimmed), SlugMax))

\* record.path.replaceAll("/", "-")
SlashesToDashes(path) == [i \in 1..Len(path) |-> IF path[i] = "/" THEN "-" ELSE path[i]]

PathAB == <<"/", "a", "/", "b">>
PathA_B == <<"/", "A", "-", "b">>
PathC == <<"/", "c">>
NoPath == <<>>

\* The index files the importer is run on: lists of records, each a path.
IndexFiles == { <<NoPath, PathC, PathA_B, PathAB>> }

ProjectWithPath(P, path) == { i \in 1..Len(P) : P[i].path = path }

\* One INSERT ... ON CONFLICT(path) DO UPDATE.  The result is the table and
\* whether the statement succeeded; slug is UNIQUE too, and a clash on it
\* with another row is not handled by the ON CONFLICT clause.
UpsertProject(P, path, t) ==
    LET slug == slugify(SlashesToDashes(path))
        existing == ProjectWithPath(P, path)
    IN  IF existing # {}
        THEN LET i == CHOOSE j \in existing : TRUE
             IN  IF \E j \in 1..Len(P) : j # i /\ P[j].slug = slug
                 THEN [ok |-> FALSE, table |-> P]
                 ELSE [ok |-> TRUE,
                       table |-> [P EXCEPT ![i].slug = slug, ![i].updatedAt = t]]
        ELSE IF \E j \in 1..Len(P) : P[j].slug = slug
             THEN [ok |-> FALSE, table |-> P]
             ELSE [ok |-> TRUE,
                   table |-> Append(P, [id |-> Len(P) + 1, path |-> path, slug |-> slug,
                                        healthScore |-> ImportedHealth,
                                        updatedAt |-> t])]

RECURSIVE ImportRecords(_, _, _)
\* The for loop of importProjectsFromIndex: records without a path are
\* skipped; a failing INSERT throws out of the loop, keeping the rows
\* written so far.
ImportRecords(P, records, t) ==
    IF records = <<>> THEN [ok |-> TRUE, table |-> P]
    ELSE IF Head(records) = NoPath THEN ImportRecords(P, Tail(records), t)
    ELSE LET r == UpsertProject(P, Head(records), t)
         IN  IF r.ok THEN ImportRecords(r.table, Tail(records), t) ELSE r

----------------------------------------------------------------------------
(* Pulse Calculator *)

\* listTasks({projectId}): the tasks joined to the project through quests
ProjectTasks(T, Q, pid) == { i \in 1..Len(T) : Q[T[i].questId].projectId = pid }

Count(S) == Cardinality(S)

SetMax(S) == CHOOSE m \in S : \A x \in S : x <= m

\* The most tasks of one project that the model counts
MaxTotal == 40

\* The significand of a double, in bits
MantissaBits == 53

Reverse(s) == [i \in 1..Len(s) |-> s[Len(s) + 1 - i]]

RECURSIVE AddLow(_, _, _)
\* a + b + carry on bits given least significant first
AddLow(a, b, carry) ==
    IF a = <<>> /\ b = <<>> THEN (IF carry = 1 THEN <<1>> ELSE <<>>)
    ELSE LET x == IF a = <<>> THEN 0 ELSE Head(a)
             y == IF b = <<>> THEN 0 ELSE Head(b)
             sum == x + y + carry
         IN  <<sum % 2>> \o AddLow(IF a = <<>> THEN a ELSE Tail(a),
                                   IF b = <<>> THEN b ELSE Tail(b), sum \div 2)

\* The sum of two binary numbers, bits most significant first
AddBits(a, b) == Reverse(AddLow(Reverse(a), Reverse(b), 0))

Zeros(n) == [i \in 1..n |-> 0]

\* A number x is its bits, most significant first, and the exponent of the
\* last bit: (bits as an integer) * 2^exp.  The result of an operation on
\* doubles is rounded to MantissaBits bits, to nearest, ties to even.
RoundToDouble(x) ==
    IF Len(x.bits) <= MantissaBits THEN x
    ELSE LET kept == SubSeq(x.bits, 1, MantissaBits)
             dropped == SubSeq(x.bits, MantissaBits + 1, Len(x.bits))
             half == Head(dropped) = 1 /\ \A i \in 2..Len(dropped) : dropped[i] = 0
             above == Head(dropped) = 1 /\ ~half
             up == above \/ (half /\ kept[MantissaBits] = 1)
         IN  [bits |-> IF up THEN AddBits(kept, <<1>>) ELSE kept,
              exp |-> x.exp + Len(dropped)]

RECURSIVE QuotientBits(_, _, _)
\* n more bits of a quotient by long division (r is the remainder so far)
\* and, after them, whether what is left is half a unit, more or less
QuotientBits(r, t, n) ==
    IF n = 0 THEN (IF r = 0 THEN <<>> ELSE IF 2 * r = t THEN <<1>>
                   ELSE IF 2 * r > t THEN <<1, 1>> ELSE <<0, 1>>)
    ELSE IF 2 * r >= t THEN <<1>> \o QuotientBits(2 * r - t, t, n - 1)
    ELSE <<0>> \o QuotientBits(2 * r, t, n - 1)

RECURSIVE Pow2(_)
Pow2(n) == IF n = 0 THEN 1 ELSE 2 * Pow2(n - 1)

\* a / b in doubles, for integers 0 <= a <= b, b > 0
Divide(a, b) ==
    IF a = 0 THEN [bits |-> <<0>>, exp |-> 0]
    ELSE LET s == CHOOSE k \in 0..30 : a * Pow2(k) >= b /\ (k > 0 => a * Pow2(k - 1) < b)
             q == <<1>> \o QuotientBits(a * Pow2(s) - b, b, MantissaBits - 1)
         IN  RoundToDouble([bits |-> q, exp |-> 0 - s - (Len(q) - 1)])

\* x * 100 in doubles: 100 x = 64 x + 32 x + 4 x
Times100(x) ==
    RoundToDouble([bits |-> AddBits(AddBits(x.bits \o Zeros(6), x.bits \o Zeros(5)),
                                    x.bits \o Zeros(2)),
                   exp |-> x.exp])

RECURSIVE BitsValue(_)
BitsValue(bits) ==
    IF bits = <<>> THEN 0 ELSE 2 * BitsValue(SubSeq(bits, 1, Len(bits) - 1)) + bits[Len(bits)]

\* Math.round(x) of a double x >= 0: the nearest integer, halves upwards
MathRound(x) ==
    LET whole == Len(x.bits) + x.exp
    IN  IF x.exp >= 0 THEN BitsValue(x.bits) * Pow2(x.exp)
        ELSE IF whole < 0 THEN 0
        ELSE BitsValue(SubSeq(x.bits, 1, whole)) + x.bits[whole + 1]

\* Math.round((tasksDone / total) * 100) for every count of tasks up to
\* MaxTotal, computed once
Percents ==
    [total \in 1..MaxTotal |->
        [tasksDone \in 0..total |-> MathRound(Times100(Divide(tasksDone, total)))]]

\* A completion rounded from the exact quotient
completionPercentExact(tasksDone, total) ==
    IF total > 0 THEN RoundDiv(tasksDone * 100, total) ELSE 0

\* total > 0 ? Math.round((tasksDone / total) * 100) : 0
completionPercent(tasksDone, total) ==
    IF total > 0 THEN Percents[total][tasksDone] ELSE 0

\* task.actualPoints ?? task.estimatePoints
PointsOf(task) == IF IsSome(task.actualPoints) THEN Get(task.actualPoints) ELSE task.estimatePoints

RECURSIVE SumPoints(_, _)
\* reduce((sum, task) => sum + ..., 0) over the rows S of T
SumPoints(T, S) ==
    IF S = {} THEN 0
    ELSE LET i == CHOOSE j \in S : \A k \in S : j <= k
         IN  PointsOf(T[i]) + SumPoints(T, S \ {i})

\* An xpEarned that counts the estimate of every task
xpEarnedOfEstimates(T, mine) ==
    LET Estimates == [i \in DOMAIN T |-> [T[i] EXCEPT !.actualPoints = None]]
    IN  SumPoints(Estimates, mine)

\* tasks.filter(state === "done").reduce(...)
xpEarnedOf(T, mine) == SumPoints(T, { i \in mine : T[i].state = "done" })

\* A staleness that begins at ten days
staleOfTenDays(latestUpdate, t) ==
    IF latestUpdate > 0 THEN t - latestUpdate >= TenDays ELSE TRUE

\* latestUpdate > 0 ? Date.now() - latestUpdate > 10 days : true
staleOf(latestUpdate, t) ==
    IF latestUpdate > 0 THEN t - latestUpdate > TenDays ELSE TRUE

\* getProjectPulse without nextAction, which the pulse takes from the
\* Recommendation Scorer
getProjectPulse(T, Q, pid, t) ==
    LET mine == ProjectTasks(T, Q, pid)
        total == Count(mine)
        tasksTodo == Count({ i \in mine : T[i].state = "todo" })
        tasksDoing == Count({ i \in mine : T[i].state \in {"doing", "review"} })
        tasksBlocked == Count({ i \in mine : T[i].state = "blocked" })
        tasksDone == Count({ i \in mine : T[i].state = "done" })
        velocity7d == Count({ i \in mine : IsSome(T[i].completedAt)
                                            /\ Get(T[i].completedAt) >= t - SevenDays })
        xpEarned == xpEarnedOf(T, mine)
        latestUpdate == IF mine = {} THEN 0 ELSE SetMax({ T[i].updatedAt : i \in mine })
    IN  [ projectId |-> pid,
          completionPercent |-> completionPercent(tasksDone, total),
          tasksTodo |-> tasksTodo,
          tasksDoing |-> tasksDoing,
          tasksBlocked |-> tasksBlocked,
          tasksDone |-> tasksDone,
          velocity7d |-> velocity7d,
          xpEarned |-> xpEarned,
          stale |-> staleOf(latestUpdate, t) ]

----------------------------------------------------------------------------
(* Health Propagator *)

\* Twice the sum inside Math.round (completionPercent * 0.5 is a half-integer)
HealthSumTwice(pulse) ==
    pulse.completionPercent
    + 2 * Min2(25, pulse.velocity7d * 3)
    + 2 * (IF pulse.tasksBlocked > 0 THEN -12 ELSE 8)
    + 2 * (IF pulse.stale THEN -16 ELSE 8)

\* The health score with the sum cut to an integer rather than rounded
HealthOfFloor(pulse) ==
    LET lo == 0
        hi == 100
        cut == HealthSumTwice(pulse) \div 2
    IN  Min2(hi, Max2(lo, cut))

HealthOf(pulse) == clamp(RoundDiv(HealthSumTwice(pulse), 2), 0, 100)

\* A recompute that reads the tasks as they were before the mutation
touchProjectByQuestStale(P, T, Q, questId, t) ==
    IF questId \notin 1..Len(Q) THEN P
    ELSE LET pid == Q[questId].projectId
         IN  [P EXCEPT ![pid].updatedAt = t,
                       ![pid].healthScore = HealthOf(getProjectPulse(tasks, Q, pid, t))]

\* A touch that writes only a health score that changed
touchProjectByQuestIfChanged(P, T, Q, questId, t) ==
    IF questId \notin 1..Len(Q) THEN P
    ELSE LET pid == Q[questId].projectId
             score == HealthOf(getProjectPulse(T, Q, pid, t))
         IN  IF score = P[pid].healthScore THEN P
             ELSE [P EXCEPT ![pid].updatedAt = t, ![pid].healthScore = score]

\* A touch that recomputes every project
touchEveryProject(P, T, Q, questId, t) ==
    IF questId \notin 1..Len(Q) THEN P
    ELSE [p \in 1..Len(P) |->
            [P[p] EXCEPT !.updatedAt = t,
                         !.healthScore = HealthOf(getProjectPulse(T, Q, p, t))]]

\* touchProjectByQuest on the tables after the mutation
touchProjectByQuest(P, T, Q, questId, t) ==
    IF questId \notin 1..Len(Q) THEN P
    ELSE LET pid == Q[questId].projectId
         IN  [P EXCEPT ![pid].updatedAt = t,
                       ![pid].healthScore = HealthOf(getProjectPulse(T, Q, pid, t))]

----------------------------------------------------------------------------
(* Recommendation Scorer *)

\* The project_id argument that is the empty string
EmptyId == 0

\* `projectId ? ... : ...`: an absent filter and the empty string are falsy
Truthy(filter) == IsSome(filter) /\ Get(filter) # EmptyId

\* Candidate rows that leave out only the tasks that are done
CandidateRowsNotDone(T, Q, P, filter) ==
    { i \in 1..Len(T) :
        /\ T[i].state # "done"
        /\ T[i].questId \in 1..Len(Q)
        /\ Q[T[i].questId].projectId \in 1..Len(P)
        /\ (Truthy(filter) => Q[T[i].questId].projectId = Get(filter)) }

\* WHERE t.state IN ('todo','doing','review') [AND p.id = ?], over the join
\* of tasks, quests and projects
CandidateRows(T, Q, P, filter) ==
    { i \in 1..Len(T) :
        /\ T[i].state \in {"todo", "doing", "review"}
        /\ T[i].questId \in 1..Len(Q)
        /\ Q[T[i].questId].projectId \in 1..Len(P)
        /\ (Truthy(filter) => Q[T[i].questId].projectId = Get(filter)) }

\* ORDER BY q.priority DESC, t.updated_at DESC: row a may come before row b
InOrder(T, Q, a, b) ==
    \/ Q[T[a].questId].priority > Q[T[b].questId].priority
    \/ /\ Q[T[a].questId].priority = Q[T[b].questId].priority
       /\ T[a].updatedAt >= T[b].updatedAt

\* Every result list the query may return: rows with equal sort keys come
\* in an order SQL does not fix
OrderedRows(T, Q, P, filter) ==
    LET C == CandidateRows(T, Q, P, filter)
        n == Cardinality(C)
    IN  { rows \in [1..n -> C] :
            /\ \A i, j \in 1..n : i # j => rows[i] # rows[j]
            /\ \A i, j \in 1..n : i < j => InOrder(T, Q, rows[i], rows[j]) }

\* A score that is not clamped
ScoreOfUnclamped(state, questPriority, questState, blockers) ==
    (IF state = "doing" THEN 40 ELSE IF state = "review" THEN 34 ELSE 24)
    + questPriority * 11
    + (IF questState = "active" THEN 18 ELSE 0)
    - Len(blockers) * 20

\* A score that rewards blockers
ScoreOfBlockersAdded(state, questPriority, questState, blockers) ==
    LET raw == (IF state = "doing" THEN 40 ELSE IF state = "review" THEN 34 ELSE 24)
                 + questPriority * 11
                 + (IF questState = "active" THEN 18 ELSE 0)
                 + Len(blockers) * 20
    IN  Min2(100, Max2(0, raw))

\* The score of one row, lines 647-655
ScoreOf(state, questPriority, questState, blockers) ==
    LET s1 == IF state = "doing" THEN 40 ELSE 0
        s2 == IF state = "review" THEN s1 + 34 ELSE s1
        s3 == IF state = "todo" THEN s2 + 24 ELSE s2
        s4 == s3 + questPriority * 11
        s5 == IF questState = "active" THEN s4 + 18 ELSE s4
        s6 == s5 - Len(blockers) * 20
    IN  clamp(s6, 0, 100)

\* A candidate whose reason is always the "Push" text
CandidateOfPushing(T, Q, i) ==
    LET q == Q[T[i].questId]
    IN  [ taskId |-> T[i].id,
          projectId |-> q.projectId,
          reason |-> <<"Push", T[i].id, q.id>>,
          score |-> ScoreOf(T[i].state, q.priority, q.state, T[i].blockers) ]

\* The candidate built from one row, lines 646-666.  The reason text is
\* kept as its template and the rows whose title or name fill it.
CandidateOf(T, Q, i) ==
    LET q == Q[T[i].questId]
    IN  [ taskId |-> T[i].id,
          projectId |-> q.projectId,
          reason |-> IF Len(T[i].blockers) > 0
                     THEN <<"Unblock", T[i].id, q.projectId>>
                     ELSE <<"Push", T[i].id, q.id>>,
          score |-> ScoreOf(T[i].state, q.priority, q.state, T[i].blockers) ]

\* A scan in which a later row of equal score takes the top
ReplacesOnTie(candidate, top) == top = None \/ candidate.score >= Get(top).score

\* if (!top || candidate.score > top.score) top = candidate
Replaces(candidate, top) == top = None \/ candidate.score > Get(top).score

RECURSIVE ScanRows(_, _, _, _, _)
\* The for loop over the rows, keeping the top candidate
ScanRows(T, Q, rows, k, top) ==
    IF k > Len(rows) THEN top
    ELSE LET candidate == CandidateOf(T, Q, rows[k])
         IN  ScanRows(T, Q, rows, k + 1,
                      IF Replaces(candidate, top) THEN Some(candidate) ELSE top)

\* What getNextTaskRecommendation(projectId) may return
Recommendations(T, Q, P, filter) ==
    { IF rows = <<>> THEN None ELSE ScanRows(T, Q, rows, 1, None) :
        rows \in OrderedRows(T, Q, P, filter) }

----------------------------------------------------------------------------
(* Store operations.  Each returns through `last` what the method returns. *)

Call(op, arg, ret) == [op |-> op, arg |-> arg, ret |-> ret]

\* input.x ?? dflt
OrElse(opt, dflt) == IF IsSome(opt) THEN Get(opt) ELSE dflt

importProjectsFromIndex(file) ==
    LET r == ImportRecords(projects, file, now)
    IN  /\ projects' = r.table
        /\ last' = Call("importProjectsFromIndex", file, r.ok)
        /\ UNCHANGED <<quests, tasks, now, framerVars>>

\* Quest titles: the one ensureQuest looks for, and another
GeneralBacklog == <<"G", "e", "n", "e", "r", "a", "l", " ", "B", "a", "c", "k", "l", "o", "g">>
OtherTitle == <<"Q">>

\* createQuest; the INSERT fails on the foreign key when the project is absent
createQuest(projectId, title, state, priority) ==
    /\ IF projectId \notin 1..Len(projects)
       THEN /\ last' = Call("createQuest", projectId, None)
            /\ UNCHANGED <<projects, quests, tasks, now, framerVars>>
       ELSE LET quest == [ id |-> Len(quests) + 1,
                           projectId |-> projectId,
                           title |-> title,
                           state |-> OrElse(state, "todo"),
                           priority |-> OrElse(priority, DefaultPriority),
                           updatedAt |-> now ]
                Q == Append(quests, quest)
            IN  /\ quests' = Q
                /\ projects' = touchProjectByQuest(projects, tasks, Q, quest.id, now)
                /\ last' = Call("createQuest", projectId, Some(quest))
                /\ UNCHANGED <<tasks, now, framerVars>>

updateQuest(questId, patch) ==
    IF questId \notin 1..Len(quests)
    THEN /\ last' = Call("updateQuest", questId, None)
         /\ UNCHANGED <<projects, quests, tasks, now, framerVars>>
    ELSE LET current == quests[questId]
             next == [ current EXCEPT
                         !.state = OrElse(patch.state, current.state),
                         !.priority = OrElse(patch.priority, current.priority),
                         !.updatedAt = now ]
             Q == [quests EXCEPT ![questId] = next]
         IN  /\ quests' = Q
             /\ projects' = touchProjectByQuest(projects, tasks, Q, questId, now)
             /\ last' = Call("updateQuest", questId, Some(next))
             /\ UNCHANGED <<tasks, now, framerVars>>

\* The row createTask inserts
NewTask(id, questId, state, estimatePoints, blockers, t) ==
    [ id |-> id,
      questId |-> questId,
      state |-> OrElse(state, "todo"),
      estimatePoints |-> OrElse(estimatePoints, DefaultEstimate),
      actualPoints |-> None,
      blockers |-> OrElse(blockers, <<>>),
      updatedAt |-> t,
      completedAt |-> None ]

\* createTask; the INSERT fails on the foreign key when the quest is absent
createTask(questId, state, estimatePoints, blockers) ==
    /\ IF questId \notin 1..Len(quests)
       THEN /\ last' = Call("createTask", questId, None)
            /\ UNCHANGED <<projects, quests, tasks, now, framerVars>>
       ELSE LET task == NewTask(Len(tasks) + 1, questId, state, estimatePoints, blockers, now)
                T == Append(tasks, task)
            IN  /\ tasks' = T
                /\ projects' = touchProjectByQuest(projects, T, quests, questId, now)
                /\ last' = Call("createTask", questId, Some(task))
                /\ UNCHANGED <<quests, now, framerVars>>

\* The row updateTask writes over `current`
PatchedTask(current, patch, t) ==
    LET nextState == OrElse(patch.state, current.state)
        completedAt == IF nextState = "done"
                       THEN (IF IsSome(current.completedAt) THEN current.completedAt ELSE Some(t))
                       ELSE None
    IN  [ current EXCEPT
            !.state = nextState,
            !.estimatePoints = OrElse(patch.estimatePoints, current.estimatePoints),
            !.actualPoints = IF IsSome(patch.actualPoints) THEN patch.actualPoints
                             ELSE current.actualPoints,
            !.blockers = OrElse(patch.blockers, current.blockers),
            !.updatedAt = t,
            !.completedAt = completedAt ]

updateTask(taskId, patch) ==
    IF taskId \notin 1..Len(tasks)
    THEN /\ last' = Call("updateTask", taskId, None)
         /\ UNCHANGED <<projects, quests, tasks, now, framerVars>>
    ELSE LET next == PatchedTask(tasks[taskId], patch, now)
             T == [tasks EXCEPT ![taskId] = next]
         IN  /\ tasks' = T
             /\ projects' = touchProjectByQuest(projects, T, quests, next.questId, now)
             /\ last' = Call("updateTask", taskId, Some(next))
             /\ UNCHANGED <<quests, now, framerVars>>

\* A completion that always writes the estimate over the actual points
CompletedTaskOverwriting(current, t) ==
    [ current EXCEPT
        !.state = "done",
        !.completedAt = Some(t),
        !.updatedAt = t,
        !.actualPoints = Some(current.estimatePoints) ]

\* The row completeTask writes over `current`
CompletedTask(current, t) ==
    [ current EXCEPT
        !.state = "done",
        !.completedAt = Some(t),
        !.updatedAt = t,
        !.actualPoints = IF current.actualPoints = None
                         THEN Some(current.estimatePoints)
                         ELSE current.actualPoints ]

completeTask(taskId) ==
    IF taskId \notin 1..Len(tasks)
    THEN /\ last' = Call("completeTask", taskId, None)
         /\ UNCHANGED <<projects, quests, tasks, now, framerVars>>
    ELSE LET next == CompletedTask(tasks[taskId], now)
             T == [tasks EXCEPT ![taskId] = next]
         IN  /\ tasks' = T
             /\ projects' = touchProjectByQuest(projects, T, quests, next.questId, now)
             /\ last' = Call("completeTask", taskId, Some(next))
             /\ UNCHANGED <<quests, now, framerVars>>

getNextTaskRecommendation(filter) ==
    /\ \E r \in Recommendations(tasks, quests, projects, filter) :
          last' = Call("getNextTaskRecommendation", filter, r)
    /\ UNCHANGED <<projects, quests, tasks, now, framerVars>>

\* The wall clock moves on between calls.
TickDays == {11}

Tick ==
    /\ \E d \in TickDays :
          /\ now + d <= MaxNow
          /\ now' = now + d
    /\ last' = Call("tick", None, None)
    /\ UNCHANGED <<projects, quests, tasks, framerVars, serverVars>>

----------------------------------------------------------------------------
(* The Store's life: imports and quest / task mutations *)

StartTime == 1

\* No bytes have been written to stdin
FramerIdle ==
    /\ sent = <<>>
    /\ pending = <<>>
    /\ buffer = <<>>
    /\ dispatched = <<>>
    /\ hung = FALSE

\* No message has been handed to handle()
ServerIdle ==
    /\ env = [apiKey |-> FALSE, provider |-> "openai"]
    /\ inbox = <<>>
    /\ handlers = <<>>
    /\ written = <<>>
    /\ stdout = <<>>
    /\ events = <<>>
    /\ journal = <<>>

Init ==
    /\ FramerIdle
    /\ ServerIdle
    /\ projects = <<>>
    /\ quests = <<>>
    /\ tasks = <<>>
    /\ now = StartTime
    /\ last = Call("init", None, None)

\* ids given to the calls
QuestIdArgs == 1..Len(quests)
TaskIdArgs == 1..Len(tasks)
ProjectIdArgs == 1..Len(projects)

LifeTaskStates == {"todo", "blocked", "done"}
LifeQuestPatches == { [state |-> None, priority |-> None] }
LifeTaskPatches ==
    { [state |-> s, estimatePoints |-> None, actualPoints |-> a, blockers |-> None] :
        s \in {None} \cup { Some(x) : x \in LifeTaskStates }, a \in {None} }

Import ==
    /\ \E file \in IndexFiles : importProjectsFromIndex(file)
    /\ UNCHANGED serverVars
CreateQuest ==
    /\ Len(quests) < MaxQuests
    /\ \E p \in ProjectIdArgs : createQuest(p, OtherTitle, None, None)
    /\ UNCHANGED serverVars
UpdateQuest ==
    /\ \E q \in QuestIdArgs, patch \in LifeQuestPatches : updateQuest(q, patch)
    /\ UNCHANGED serverVars
CreateTask ==
    /\ Len(tasks) < MaxTasks
    /\ \E q \in QuestIdArgs, s \in {None, Some("done")} : createTask(q, s, None, None)
    /\ UNCHANGED serverVars
UpdateTask ==
    /\ \E t \in TaskIdArgs, patch \in LifeTaskPatches : updateTask(t, patch)
    /\ UNCHANGED serverVars
CompleteTask ==
    /\ \E t \in TaskIdArgs : completeTask(t)
    /\ UNCHANGED serverVars

Next ==
    \/ Import
    \/ CreateQuest
    \/ UpdateQuest
    \/ CreateTask
    \/ UpdateTask
    \/ CompleteTask
    \/ Tick

Spec == Init /\ [][Next]_vars

----------------------------------------------------------------------------
(* One task under patches and completion: the rows updateTask and          *)
(* completeTask read and write, and ids that name no row                   *)

\* projects after the one index file was imported at the start
ImportedProjects == ImportRecords(<<>>, <<NoPath, PathC, PathA_B, PathAB>>, StartTime).table

BacklogQuest ==
    [id |-> 1, projectId |-> 1, title |-> GeneralBacklog, state |-> "todo",
     priority |-> DefaultPriority, updatedAt |-> StartTime]

FirstTasks ==
    { NewTask(1, 1, s, e, None, StartTime) :
        s \in {None} \cup { Some(x) : x \in TASK_STATES }, e \in {None, Some(5)} }

\* The Store after the import, createQuest and one createTask
TaskInit ==
    /\ FramerIdle
    /\ ServerIdle
    /\ quests = <<BacklogQuest>>
    /\ \E task \in FirstTasks :
          /\ tasks = <<task>>
          /\ projects = touchProjectByQuest(ImportedProjects, <<task>>, <<BacklogQuest>>, 1, StartTime)
          /\ last = Call("createTask", 1, Some(task))
    /\ now = StartTime

TaskPatches ==
    { [state |-> s, estimatePoints |-> e, actualPoints |-> a, blockers |-> b] :
        s \in {None} \cup { Some(x) : x \in TASK_STATES },
        e \in {None, Some(5)},
        a \in {None, Some(3)},
        b \in {None, Some(<<"waiting">>)} }

PatchTask ==
    /\ \E t \in 1..(Len(tasks) + 1), patch \in TaskPatches : updateTask(t, patch)
    /\ UNCHANGED serverVars
FinishTask ==
    /\ \E t \in 1..(Len(tasks) + 1) : completeTask(t)
    /\ UNCHANGED serverVars

TaskNext ==
    \/ PatchTask
    \/ FinishTask
    \/ Tick

SpecTask == TaskInit /\ [][TaskNext]_vars

----------------------------------------------------------------------------
(* The Recommendation Scorer on stores of a few tasks *)

MaxCandidates == 2

ScoreQuests ==
    << [id |-> 1, projectId |-> 1, title |-> OtherTitle, state |-> "active", priority |-> 3,
         updatedAt |-> StartTime + 1],
       [id |-> 2, projectId |-> 1, title |-> OtherTitle, state |-> "active", priority |-> 1,
         updatedAt |-> StartTime + 1],
       [id |-> 3, projectId |-> 2, title |-> OtherTitle, state |-> "todo", priority |-> 7,
         updatedAt |-> StartTime + 1] >>

ScoreStates == <<"todo", "doing", "review", "done", "blocked">>
ScoreBlockers == << <<>>, <<"waiting">>, <<"waiting", "review", "deploy">> >>

\* The kinds of task row: quest x state x blockers x day of the last update
TaskKinds == 0..(3 * 5 * 3 * 2 - 1)

\* Row `id` of kind k: what createTask followed by updateTask leaves
KindTask(id, k) ==
    LET state == ScoreStates[((k \div 3) % 5) + 1]
        updatedAt == StartTime + (k \div 45)
    IN  [ id |-> id,
          questId |-> (k % 3) + 1,
          state |-> state,
          estimatePoints |-> DefaultEstimate,
          actualPoints |-> None,
          blockers |-> ScoreBlockers[((k \div 15) % 3) + 1],
          updatedAt |-> updatedAt,
          completedAt |-> IF state = "done" THEN Some(updatedAt) ELSE None ]

RECURSIVE TouchAll(_, _, _, _, _)
\* updateQuest with an empty patch on quests k..Len(Q)
TouchAll(P, T, Q, k, t) ==
    IF k > Len(Q) THEN P
    ELSE TouchAll(touchProjectByQuest(P, T, Q, k, t), T, Q, k + 1, t)

\* Stores with up to MaxCandidates tasks (ids in the order of their kinds),
\* every project touched last
ScoreInit ==
    /\ FramerIdle
    /\ ServerIdle
    /\ quests = ScoreQuests
    /\ now = StartTime + 1
    /\ \E n \in 0..MaxCandidates :
          \E kinds \in [1..n -> TaskKinds] :
             /\ \A i \in 1..n : i < n => kinds[i] <= kinds[i + 1]
             /\ tasks = [i \in 1..n |-> KindTask(i, kinds[i])]
             /\ projects = TouchAll(ImportedProjects, [i \in 1..n |-> KindTask(i, kinds[i])],
                                    ScoreQuests, 1, StartTime + 1)
    /\ last = Call("updateQuest", Len(ScoreQuests), Some(ScoreQuests[Len(ScoreQuests)]))

ScoreFilters == {None, Some(EmptyId), Some(1), Some(2)}

Recommend ==
    /\ \E filter \in ScoreFilters : getNextTaskRecommendation(filter)
    /\ UNCHANGED serverVars

ScoreNext == Recommend

SpecScore == ScoreInit /\ [][ScoreNext]_vars

----------------------------------------------------------------------------
(* The stdio framer of the MCP server: process.stdin.on("data")            *)

CR == "\r"
LF == "\n"
CRLF == <<CR, LF>>

\* "\r\n\r\n"
HeaderEndMark == <<CR, LF, CR, LF>>

\* buffer.indexOf(pattern): the offset (from 0) of the first occurrence, or -1
IndexOf(buf, pattern) ==
    LET hits == { i \in 0..(Len(buf) - Len(pattern)) :
                    SubSeq(buf, i + 1, i + Len(pattern)) = pattern }
    IN  IF hits = {} THEN -1 ELSE CHOOSE i \in hits : \A j \in hits : i <= j

RECURSIVE Split(_, _)
\* text.split(separator)
Split(text, separator) ==
    LET at == IndexOf(text, separator)
    IN  IF at = -1 THEN <<text>>
        ELSE <<SubSeq(text, 1, at)>>
               \o Split(SubSeq(text, at + Len(separator) + 1, Len(text)), separator)

\* text.toLowerCase()
ToLowerCase(text) == [i \in 1..Len(text) |-> Lower(text[i])]

\* text.startsWith(prefix)
StartsWith(text, prefix) ==
    Len(text) >= Len(prefix) /\ SubSeq(text, 1, Len(prefix)) = prefix

\* "content-length:"
LengthPrefix == <<"c", "o", "n", "t", "e", "n", "t", "-", "l", "e", "n", "g", "t", "h", ":">>

\* A search that looks at the first header line only
FirstLineOnly(lines) ==
    IF StartsWith(ToLowerCase(lines[1]), LengthPrefix) THEN Some(lines[1]) ELSE None

\* lines.find(line => line.toLowerCase().startsWith("content-length:"))
FindLengthLine(lines) ==
    LET hits == { k \in 1..Len(lines) : StartsWith(ToLowerCase(lines[k]), LengthPrefix) }
    IN  IF hits = {} THEN None ELSE Some(lines[CHOOSE k \in hits : \A j \in hits : k <= j])

WhiteSpace == {" ", "\t", CR, LF}

RECURSIVE TrimStart(_)
TrimStart(text) ==
    IF text # <<>> /\ Head(text) \in WhiteSpace THEN TrimStart(Tail(text)) ELSE text

RECURSIVE TrimEnd(_)
TrimEnd(text) ==
    IF text # <<>> /\ text[Len(text)] \in WhiteSpace
    THEN TrimEnd(SubSeq(text, 1, Len(text) - 1)) ELSE text

\* text.trim()
Trim(text) == TrimEnd(TrimStart(text))

Digits == <<"0", "1", "2", "3", "4", "5", "6", "7", "8", "9">>

IsDigit(c) == \E d \in 1..Len(Digits) : Digits[d] = c

DigitValue(c) == (CHOOSE d \in 1..Len(Digits) : Digits[d] = c) - 1

RECURSIVE DecimalValue(_)
DecimalValue(digits) ==
    IF digits = <<>> THEN 0
    ELSE 10 * DecimalValue(SubSeq(digits, 1, Len(digits) - 1)) + DigitValue(digits[Len(digits)])

AllDigits(text) == text # <<>> /\ \A i \in 1..Len(text) : IsDigit(text[i])

\* Number(text) on trimmed text of digits, "-" and letters: the empty text
\* is 0, a decimal numeral its value, anything else NaN (None)
ToNumber(text) ==
    IF text = <<>> THEN Some(0)
    ELSE IF AllDigits(text) THEN Some(DecimalValue(text))
    ELSE IF Head(text) = "-" /\ AllDigits(Tail(text)) THEN Some(0 - DecimalValue(Tail(text)))
    ELSE None

\* Number(lengthLine.split(":")[1]?.trim() ?? 0); the line starts with
\* "content-length:", so split(":")[1] exists
ContentLength(lengthLine) == ToNumber(Trim(Split(lengthLine, <<":">>)[2]))

\* An offset given to subarray, as TypedArray.prototype.subarray reads it:
\* NaN is 0, a negative offset counts from the end, and it is cut to 0..length
RelativeOffset(buf, offset) ==
    IF offset = None THEN 0
    ELSE IF Get(offset) < 0 THEN Max2(Len(buf) + Get(offset), 0)
    ELSE Min2(Get(offset), Len(buf))

\* buffer.subarray(start, end)
Subarray(buf, start, end) ==
    SubSeq(buf, RelativeOffset(buf, start) + 1, RelativeOffset(buf, end))

\* buffer.subarray(start)
SubarrayFrom(buf, start) == SubSeq(buf, RelativeOffset(buf, start) + 1, Len(buf))

\* JSON.parse(payload) returns rather than throws.  The texts told apart
\* are those the framer can cut out of the streams below: numbers, strings
\* of letters, the three literals and objects of scalar members, with
\* white space around the tokens.
IsJsonNumber(text) ==
    LET digits == IF text # <<>> /\ Head(text) = "-" THEN Tail(text) ELSE text
    IN  AllDigits(digits) /\ (Len(digits) > 1 => Head(digits) # "0")

IsJsonString(text) ==
    /\ Len(text) >= 2
    /\ text[1] = "\""
    /\ text[Len(text)] = "\""
    /\ \A i \in 2..(Len(text) - 1) : text[i] \notin {"\"", "\\", "\t", CR, LF}

IsJsonLiteral(text) ==
    text \in { <<"n", "u", "l", "l">>, <<"t", "r", "u", "e">>, <<"f", "a", "l", "s", "e">> }

IsJsonScalar(text) == IsJsonNumber(text) \/ IsJsonString(text) \/ IsJsonLiteral(text)

IsJsonMember(text) ==
    LET parts == Split(text, <<":">>)
    IN  /\ Len(parts) = 2
        /\ IsJsonString(Trim(parts[1]))
        /\ IsJsonScalar(Trim(parts[2]))

IsJsonObject(text) ==
    /\ Len(text) >= 2
    /\ text[1] = "{"
    /\ text[Len(text)] = "}"
    /\ LET inner == Trim(SubSeq(text, 2, Len(text) - 1))
           members == Split(inner, <<",">>)
       IN  inner = <<>> \/ \A m \in 1..Len(members) : IsJsonMember(members[m])

JsonParses(payload) == IsJsonScalar(Trim(payload)) \/ IsJsonObject(Trim(payload))

\* A framer that cuts the message as soon as the header block is complete
NeverNeedsMore(buf, messageEnd) == FALSE

\* if (buffer.length < messageEnd) break; a comparison with NaN is false
NeedsMore(buf, messageEnd) == messageEnd # None /\ Len(buf) < Get(messageEnd)

\* How much of the frame at the front of the buffer had arrived in earlier
\* chunks, `carried` being the count of buffered bytes that are not new
Waited(carried, messageStart) ==
    IF carried = 0 THEN "nothing"
    ELSE IF carried < messageStart THEN "header"
    ELSE "body"

\* How many of the body bytes a header announces are in the buffer
Present(buf, messageStart, length) ==
    IF length = None THEN 0
    ELSE Min2(Len(buf) - messageStart, Max2(Get(length), 0))

\* One pass of the while loop on buffer `buf`: it breaks, or it continues
\* with a shorter buffer and perhaps a message handed to handle()
FrameStep(buf, carried) ==
    LET headerEnd == IndexOf(buf, HeaderEndMark)
    IN  IF headerEnd = -1 THEN [go |-> "break", buffer |-> buf, message |-> None]
        ELSE
          LET header == SubSeq(buf, 1, headerEnd)
              lengthLine == FindLengthLine(Split(header, CRLF))
          IN  IF lengthLine = None
              THEN [go |-> "continue",
                    buffer |-> SubarrayFrom(buf, Some(headerEnd + 4)),
                    message |-> None]
              ELSE
                LET length == ContentLength(Get(lengthLine))
                    messageStart == headerEnd + 4
                    messageEnd == IF length = None THEN None
                                  ELSE Some(messageStart + Get(length))
                IN  IF NeedsMore(buf, messageEnd)
                    THEN [go |-> "break", buffer |-> buf, message |-> None]
                    ELSE
                      LET payload == Subarray(buf, Some(messageStart), messageEnd)
                      IN  [go |-> "continue",
                           buffer |-> SubarrayFrom(buf, messageEnd),
                           message |->
                              IF JsonParses(payload)
                              THEN Some([ payload |-> payload,
                                          length |-> length,
                                          present |-> Present(buf, messageStart, length),
                                          waited |-> Waited(carried, messageStart) ])
                              ELSE None]

RECURSIVE Drain(_, _, _)
\* The while (true) loop.  A pass that continues on an unchanged buffer is
\* repeated for ever: the loop never returns.
Drain(buf, out, carried) ==
    LET step == FrameStep(buf, carried)
        out2 == IF step.message = None THEN out ELSE Append(out, Get(step.message))
    IN  IF step.go = "break" THEN [buffer |-> buf, out |-> out, hung |-> FALSE]
        ELSE IF step.buffer = buf THEN [buffer |-> buf, out |-> out2, hung |-> TRUE]
        ELSE Drain(step.buffer, out2, Max2(0, carried - (Len(buf) - Len(step.buffer))))

\* The "data" handler on one chunk
OnData(chunk) ==
    LET r == Drain(buffer \o chunk, dispatched, Len(buffer))
    IN  /\ buffer' = r.buffer
        /\ dispatched' = r.out
        /\ hung' = r.hung

----------------------------------------------------------------------------
(* The byte streams a client writes to the framer *)

LengthName == <<"C", "o", "n", "t", "e", "n", "t", "-", "L", "e", "n", "g", "t", "h">>

RECURSIVE Decimal(_)
\* The decimal numeral of n >= 0
Decimal(n) ==
    IF n < 10 THEN <<Digits[n + 1]>>
    ELSE Decimal(n \div 10) \o <<Digits[(n % 10) + 1]>>

\* "Content-Length: <n>"
LengthHeader(n) == LengthName \o <<":", " ">> \o Decimal(n)

\* "content-length:<n>"
PlainLengthHeader(n) == LengthPrefix \o Decimal(n)

\* "T: a", a header the framer has no use for
OtherHeader == <<"T", ":", " ", "a">>

\* {"id":1}
Body(digit) == <<"{", "\"", "i", "d", "\"", ":", digit, "}">>

\* A JSON text that is a number
NumberBody == <<"1", "2">>

Frame(headers, body) == [headers |-> headers, body |-> body]

FrameA == Frame(<<LengthHeader(8)>>, Body("1"))
FrameB == Frame(<<OtherHeader, LengthHeader(8)>>, Body("2"))
FrameC == Frame(<<PlainLengthHeader(2), OtherHeader>>, NumberBody)

\* Header blocks without a length the framer can use
NoLengthFrame == Frame(<<OtherHeader>>, <<>>)
NoLengthWithBody == Frame(<<OtherHeader>>, Body("3"))
BadLengthFrame == Frame(<<LengthName \o <<":", " ", "x">> >>, <<>>)
EmptyLengthFrame == Frame(<<LengthName \o <<":">> >>, <<>>)
NegativeLengthFrame == Frame(<<LengthName \o <<":", " ", "-", "1">> >>, <<>>)

WellFormedStreams ==
    { <<FrameA>>, <<FrameA, FrameB>>, <<FrameC, FrameA>>, <<FrameB, FrameC, FrameA>> }

BrokenStreams ==
    { <<NoLengthFrame, FrameA>>, <<NoLengthWithBody, FrameA>>, <<BadLengthFrame, FrameA>>,
      <<EmptyLengthFrame, FrameA>>, <<NegativeLengthFrame, FrameA>> }

RECURSIVE Join(_, _)
Join(lines, separator) ==
    IF Len(lines) = 1 THEN lines[1]
    ELSE lines[1] \o separator \o Join(Tail(lines), separator)

\* The bytes of one frame: header lines, a blank line, the body
Encode(frame) == Join(frame.headers, CRLF) \o HeaderEndMark \o frame.body

RECURSIVE EncodeAll(_)
EncodeAll(frames) ==
    IF frames = <<>> THEN <<>> ELSE Encode(Head(frames)) \o EncodeAll(Tail(frames))

FramerInit ==
    /\ \E frames \in WellFormedStreams \cup BrokenStreams :
          /\ sent = frames
          /\ pending = EncodeAll(frames)
    /\ buffer = <<>>
    /\ dispatched = <<>>
    /\ hung = FALSE
    /\ projects = <<>>
    /\ quests = <<>>
    /\ tasks = <<>>
    /\ now = StartTime
    /\ last = Call("init", None, None)
    /\ ServerIdle

\* stdin delivers the next bytes, cut at any place; nothing is delivered to
\* a handler that never returned
Receive ==
    /\ ~hung
    /\ pending # <<>>
    /\ \E n \in 1..Len(pending) :
          /\ OnData(SubSeq(pending, 1, n))
          /\ pending' = SubSeq(pending, n + 1, Len(pending))
    /\ UNCHANGED <<sent, projects, quests, tasks, now, last, serverVars>>

FramerNext == Receive

SpecFramer == FramerInit /\ [][FramerNext]_vars

----------------------------------------------------------------------------
(* JSON values, JSON.stringify and the frames writeMessage writes           *)

\* A character outside ASCII: e with acute accent, two bytes in UTF-8
EAcute == "U+00E9"

JNum(n) == [t |-> "num", v |-> n]
JStr(text) == [t |-> "str", v |-> text]
JBool(b) == [t |-> "bool", v |-> b]
JNull == [t |-> "null", v |-> 0]
JArr(items) == [t |-> "arr", v |-> items]

\* An object: its members in insertion order, each a key and a value
JObj(members) == [t |-> "obj", v |-> members]
Member(key, value) == [k |-> key, v |-> value]

\* A member whose value may be undefined: JSON.stringify leaves it out
OptMember(key, value) == IF value = None THEN <<>> ELSE <<Member(key, Get(value))>>

\* The decimal numeral of an integer
Numeral(n) == IF n < 0 THEN <<"-">> \o Decimal(0 - n) ELSE Decimal(n)

\* JSON.stringify's escape of one character
EscapeChar(c) ==
    CASE c = "\"" -> <<"\\", "\"">>
      [] c = "\\" -> <<"\\", "\\">>
      [] c = "\n" -> <<"\\", "n">>
      [] c = "\r" -> <<"\\", "r">>
      [] OTHER -> <<c>>

\* F(v), with v evaluated once, before F is applied to it
Eager(F(_), v) == CHOOSE r \in { F(w) : w \in {v} } : TRUE

RECURSIVE Escape(_)
\* The characters JSON.stringify escapes in a string, the text being
\* taken half by half
Escape(text) ==
    IF text = <<>> THEN <<>>
    ELSE IF Len(text) = 1 THEN EscapeChar(text[1])
    ELSE Eager(Escape, SubSeq(text, 1, Len(text) \div 2))
           \o Eager(Escape, SubSeq(text, Len(text) \div 2 + 1, Len(text)))

RECURSIVE Stringify(_)
RECURSIVE StringifyItems(_)
RECURSIVE StringifyMembers(_)

\* JSON.stringify(value)
Stringify(value) ==
    CASE value.t = "num" -> Numeral(value.v)
      [] value.t = "str" -> <<"\"">> \o Eager(Escape, value.v) \o <<"\"">>
      [] value.t = "bool" -> IF value.v THEN <<"t", "r", "u", "e">> ELSE <<"f", "a", "l", "s", "e">>
      [] value.t = "null" -> <<"n", "u", "l", "l">>
      [] value.t = "arr" -> <<"[">> \o Eager(StringifyItems, value.v) \o <<"]">>
      [] value.t = "obj" -> <<"{">> \o Eager(StringifyMembers, value.v) \o <<"}">>

StringifyItems(items) ==
    IF items = <<>> THEN <<>>
    ELSE Eager(Stringify, Head(items))
           \o (IF Len(items) > 1 THEN <<",">> \o Eager(StringifyItems, Tail(items)) ELSE <<>>)

StringifyMembers(members) ==
    IF members = <<>> THEN <<>>
    ELSE <<"\"">> \o Eager(Escape, Head(members).k) \o <<"\"", ":">>
           \o Eager(Stringify, Head(members).v)
           \o (IF Len(members) > 1 THEN <<",">> \o Eager(StringifyMembers, Tail(members)) ELSE <<>>)

RECURSIVE Utf8(_)
\* Buffer.from(text, "utf8"): one byte for an ASCII character, two for
\* EAcute; the text is taken half by half
Utf8(text) ==
    IF text = <<>> THEN <<>>
    ELSE IF Len(text) = 1
    THEN (IF text[1] = EAcute THEN <<"0xC3", "0xA9">> ELSE <<text[1]>>)
    ELSE Eager(Utf8, SubSeq(text, 1, Len(text) \div 2))
           \o Eager(Utf8, SubSeq(text, Len(text) \div 2 + 1, Len(text)))

\* A frame whose header counts the characters of the text
FrameOfCharacters(json) ==
    Utf8(LengthHeader(Len(json)) \o HeaderEndMark) \o Utf8(json)

\* The bytes writeMessage gives to process.stdout.write in one call
FrameOf(json) ==
    LET content == Eager(Utf8, json)
        header == Utf8(LengthHeader(Len(content)) \o HeaderEndMark)
    IN  header \o content

\* A success envelope that always carries the id 1
okWithFirstId(id, result) ==
    JObj(<< Member(<<"j", "s", "o", "n", "r", "p", "c">>, JStr(<<"2", ".", "0">>)), Member(<<"i", "d">>, JNum(1)), Member(<<"r", "e", "s", "u", "l", "t">>, result) >>)

\* ok(id, result)
ok(id, result) ==
    JObj(<< Member(<<"j", "s", "o", "n", "r", "p", "c">>, JStr(<<"2", ".", "0">>)), Member(<<"i", "d">>, JNum(id)), Member(<<"r", "e", "s", "u", "l", "t">>, result) >>)

\* The error.stack of new Error(message): its first line and one frame
StackOf(message) == <<"E", "r", "r", "o", "r", ":", " ">> \o message \o <<"\n">> \o <<" ", " ", " ", " ", "a", "t", " ", "c", "a", "l", "l", "T", "o", "o", "l">>

\* An error envelope that hides the message
failUnexpected(id, message, data) ==
    JObj(<< Member(<<"j", "s", "o", "n", "r", "p", "c">>, JStr(<<"2", ".", "0">>)),
            Member(<<"i", "d">>, JNum(id)),
            Member(<<"e", "r", "r", "o", "r">>,
                   JObj(<< Member(<<"c", "o", "d", "e">>, JNum(0 - 32000)),
                           Member(<<"m", "e", "s", "s", "a", "g", "e">>, JStr(<<"U", "n", "e", "x", "p", "e", "c", "t", "e", "d", " ", "e", "r", "r", "o", "r">>)) >>)) >>)

\* fail(id, message, data)
fail(id, message, data) ==
    JObj(<< Member(<<"j", "s", "o", "n", "r", "p", "c">>, JStr(<<"2", ".", "0">>)),
            Member(<<"i", "d">>, JNum(id)),
            Member(<<"e", "r", "r", "o", "r">>,
                   JObj(<< Member(<<"c", "o", "d", "e">>, JNum(0 - 32000)), Member(<<"m", "e", "s", "s", "a", "g", "e">>, JStr(message)) >>
                        \o OptMember(<<"d", "a", "t", "a">>, data))) >>)

----------------------------------------------------------------------------
(* The MCP server: messages, tool arguments and the results of the tools   *)

\* Argument values as typeof tells them apart; an id is the row's index,
\* EmptyId the empty string
Str(v) == [type |-> "string", v |-> v]
Num(v) == [type |-> "number", v |-> v]
Arr(v) == [type |-> "array", v |-> v]

\* Texts that are not ids: an argument names one by its index
Texts == << <<"/", "c">>, <<"l", "s">>, <<"T">> >>

\* A test that takes an argument of any type for a string
IsPresent(arg) == arg # None

\* typeof arg === "string", arg being absent (None) or a value
IsString(arg) == arg # None /\ Get(arg).type = "string"
IsNumber(arg) == arg # None /\ Get(arg).type = "number"
IsArray(arg) == arg # None /\ Get(arg).type = "array"

\* typeof arg === "string" ? arg : undefined
StringOrNone(arg) == IF IsString(arg) THEN Some(Get(arg).v) ELSE None

\* A string the code tests with `if (x)`: absent and empty are falsy
TruthyId(opt) == opt # None /\ Get(opt) # EmptyId

\* toTaskState(value)
toTaskState(arg) ==
    IF IsString(arg) /\ Get(arg).v \in TASK_STATES THEN Some(Get(arg).v) ELSE None

\* message.params.arguments without any member
NoArgs ==
    [ project_id |-> None, quest_id |-> None, task_id |-> None, title |-> None,
      state |-> None, blockers |-> None, estimate_points |-> None,
      cwd |-> None, command |-> None ]

\* Method and tool names
Initialize == <<"i", "n", "i", "t", "i", "a", "l", "i", "z", "e">>
ToolsList == <<"t", "o", "o", "l", "s", "/", "l", "i", "s", "t">>
ToolsCall == <<"t", "o", "o", "l", "s", "/", "c", "a", "l", "l">>
Ping == <<"p", "i", "n", "g">>
Initialized == <<"n", "o", "t", "i", "f", "i", "c", "a", "t", "i", "o", "n", "s", "/", "i", "n", "i", "t", "i", "a", "l", "i", "z", "e", "d">>
ListProjects == <<"l", "i", "s", "t", "_", "p", "r", "o", "j", "e", "c", "t", "s">>
GetProjectPulse == <<"g", "e", "t", "_", "p", "r", "o", "j", "e", "c", "t", "_", "p", "u", "l", "s", "e">>
ListTasks == <<"l", "i", "s", "t", "_", "t", "a", "s", "k", "s">>
CreateTaskTool == <<"c", "r", "e", "a", "t", "e", "_", "t", "a", "s", "k">>
UpdateTaskTool == <<"u", "p", "d", "a", "t", "e", "_", "t", "a", "s", "k">>
CompleteTaskTool == <<"c", "o", "m", "p", "l", "e", "t", "e", "_", "t", "a", "s", "k">>
GetNextTask == <<"g", "e", "t", "_", "n", "e", "x", "t", "_", "t", "a", "s", "k">>
LogSessionEvent == <<"l", "o", "g", "_", "s", "e", "s", "s", "i", "o", "n", "_", "e", "v", "e", "n", "t">>

\* The tool catalogue, by name
tools ==
    << ListProjects, GetProjectPulse, ListTasks, CreateTaskTool, UpdateTaskTool,
       CompleteTaskTool, GetNextTask, LogSessionEvent >>

\* A parsed message: params.name and params.arguments are kept apart
Message(id, method, name, args) == [id |-> id, method |-> method, name |-> name, args |-> args]

\* The messages Error objects carry
ProjectIdRequired == <<"p", "r", "o", "j", "e", "c", "t", "_", "i", "d", " ", "i", "s", " ", "r", "e", "q", "u", "i", "r", "e", "d">>
ProjectNotFound == <<"p", "r", "o", "j", "e", "c", "t", " ", "n", "o", "t", " ", "f", "o", "u", "n", "d">>
TitleRequired == <<"t", "i", "t", "l", "e", " ", "i", "s", " ", "r", "e", "q", "u", "i", "r", "e", "d">>
QuestRequired == <<"p", "r", "o", "j", "e", "c", "t", "_", "i", "d", " ", "o", "r", " ", "q", "u", "e", "s", "t", "_", "i", "d", " ", "i", "s", " ", "r", "e", "q", "u", "i", "r", "e", "d">>
TaskIdRequired == <<"t", "a", "s", "k", "_", "i", "d", " ", "i", "s", " ", "r", "e", "q", "u", "i", "r", "e", "d">>
TaskNotFound == <<"t", "a", "s", "k", " ", "n", "o", "t", " ", "f", "o", "u", "n", "d">>
CwdRequired == <<"c", "w", "d", " ", "a", "n", "d", " ", "c", "o", "m", "m", "a", "n", "d", " ", "a", "r", "e", " ", "r", "e", "q", "u", "i", "r", "e", "d">>
UnknownTool(name) == <<"U", "n", "k", "n", "o", "w", "n", " ", "t", "o", "o", "l", ":", " ">> \o name
UnknownMethod(method) == <<"U", "n", "k", "n", "o", "w", "n", " ", "m", "e", "t", "h", "o", "d", ":", " ">> \o method
\* thrown by the SQLite driver on a row whose parent is absent
ForeignKeyFailed == <<"F", "O", "R", "E", "I", "G", "N", " ", "K", "E", "Y", " ", "c", "o", "n", "s", "t", "r", "a", "i", "n", "t", " ", "f", "a", "i", "l", "e", "d">>
\* thrown by fetch when the service cannot be reached
FetchFailed == <<"f", "e", "t", "c", "h", " ", "f", "a", "i", "l", "e", "d">>
\* thrown by response.json() on a body that is not JSON
JsonBodyFailed == <<"F", "a", "i", "l", "e", "d", " ", "t", "o", " ", "p", "a", "r", "s", "e", " ", "J", "S", "O", "N">>

\* The characters of a word kept as one value in the rows
Spell(word) ==
    CASE word = "todo" -> <<"t", "o", "d", "o">>
      [] word = "doing" -> <<"d", "o", "i", "n", "g">>
      [] word = "review" -> <<"r", "e", "v", "i", "e", "w">>
      [] word = "done" -> <<"d", "o", "n", "e">>
      [] word = "blocked" -> <<"b", "l", "o", "c", "k", "e", "d">>
      [] word = "waiting" -> <<"w", "a", "i", "t", "i", "n", "g">>
      [] word = "deploy" -> <<"d", "e", "p", "l", "o", "y">>

\* Rows as the JSON the tools return; ids and days are written as numerals
IdJson(id) == JStr(Numeral(id))
OptJson(opt) == IF opt = None THEN JNull ELSE JNum(Get(opt))
DayJson(opt) == IF opt = None THEN JNull ELSE JStr(Numeral(Get(opt)))
TextsJson(texts) == JArr([i \in 1..Len(texts) |-> JStr(Spell(texts[i]))])

ProjectJson(p) ==
    JObj(<< Member(<<"i", "d">>, IdJson(p.id)), Member(<<"s", "l", "u", "g">>, JStr(p.slug)),
            Member(<<"p", "a", "t", "h">>, JStr(p.path)), Member(<<"h", "e", "a", "l", "t", "h", "S", "c", "o", "r", "e">>, JNum(p.healthScore)),
            Member(<<"u", "p", "d", "a", "t", "e", "d", "A", "t">>, JStr(Numeral(p.updatedAt))) >>)

TaskJson(task) ==
    JObj(<< Member(<<"i", "d">>, IdJson(task.id)), Member(<<"q", "u", "e", "s", "t", "I", "d">>, IdJson(task.questId)),
            Member(<<"s", "t", "a", "t", "e">>, JStr(Spell(task.state))),
            Member(<<"e", "s", "t", "i", "m", "a", "t", "e", "P", "o", "i", "n", "t", "s">>, JNum(task.estimatePoints)),
            Member(<<"a", "c", "t", "u", "a", "l", "P", "o", "i", "n", "t", "s">>, OptJson(task.actualPoints)),
            Member(<<"b", "l", "o", "c", "k", "e", "r", "s">>, TextsJson(task.blockers)),
            Member(<<"u", "p", "d", "a", "t", "e", "d", "A", "t">>, JStr(Numeral(task.updatedAt))),
            Member(<<"c", "o", "m", "p", "l", "e", "t", "e", "d", "A", "t">>, DayJson(task.completedAt)) >>)

PulseJson(pulse) ==
    JObj(<< Member(<<"p", "r", "o", "j", "e", "c", "t", "I", "d">>, IdJson(pulse.projectId)),
            Member(<<"c", "o", "m", "p", "l", "e", "t", "i", "o", "n", "P", "e", "r", "c", "e", "n", "t">>, JNum(pulse.completionPercent)),
            Member(<<"t", "a", "s", "k", "s", "T", "o", "d", "o">>, JNum(pulse.tasksTodo)),
            Member(<<"t", "a", "s", "k", "s", "D", "o", "i", "n", "g">>, JNum(pulse.tasksDoing)),
            Member(<<"t", "a", "s", "k", "s", "B", "l", "o", "c", "k", "e", "d">>, JNum(pulse.tasksBlocked)),
            Member(<<"t", "a", "s", "k", "s", "D", "o", "n", "e">>, JNum(pulse.tasksDone)),
            Member(<<"v", "e", "l", "o", "c", "i", "t", "y", "7", "d">>, JNum(pulse.velocity7d)),
            Member(<<"s", "t", "a", "l", "e">>, JBool(pulse.stale)) >>)

\* The titles and names that fill a reason: task and project rows carry
\* none in this model, and are called by their ids
ReasonText(reason) ==
    IF reason[1] = "Unblock"
    THEN <<"U", "n", "b", "l", "o", "c", "k", " ", "t", "a", "s", "k", " ">> \o Numeral(reason[2]) \o <<" ", "i", "n", " ", "p", "r", "o", "j", "e", "c", "t", " ">> \o Numeral(reason[3]) \o <<".">>
    ELSE <<"P", "u", "s", "h", " ", "t", "a", "s", "k", " ">> \o Numeral(reason[2]) \o <<" ", "(", "q", "u", "e", "s", "t", " ">> \o Numeral(reason[3]) \o <<")", " ", "f", "o", "r", "w", "a", "r", "d", ".">>

\* A NextTaskRecommendation | null
RecommendationJson(top) ==
    IF top = None THEN JNull
    ELSE JObj(<< Member(<<"t", "a", "s", "k", "I", "d">>, IdJson(Get(top).taskId)),
                 Member(<<"p", "r", "o", "j", "e", "c", "t", "I", "d">>, IdJson(Get(top).projectId)),
                 Member(<<"r", "e", "a", "s", "o", "n">>, JStr(ReasonText(Get(top).reason))),
                 Member(<<"s", "c", "o", "r", "e">>, JNum(Get(top).score)) >>)

\* Every order in which ORDER BY updated_at DESC may return the rows S
NewestFirst(S, table) ==
    { rows \in [1..Cardinality(S) -> S] :
        /\ \A i, j \in 1..Cardinality(S) : i # j => rows[i] # rows[j]
        /\ \A i, j \in 1..Cardinality(S) :
              i < j => table[rows[i]].updatedAt >= table[rows[j]].updatedAt }

----------------------------------------------------------------------------
(* The MCP server: handle(), callTool() and the Advisor Bridge             *)

\* A call of handle(): its message, where it stands (pc), how callTool
\* settled, what ensureQuest and the Scorer returned to it, what the
\* advisor service did, the recommendation the bridge returned and the
\* Store methods it has called
Handler(msg, pc, outcome, questId, heuristic, advisor, llm, db) ==
    [ msg |-> msg, pc |-> pc, outcome |-> outcome, questId |-> questId,
      heuristic |-> heuristic, advisor |-> advisor, llm |-> llm, db |-> db ]

\* callTool returned `json`
Result(json) == Some([kind |-> "result", message |-> <<>>, json |-> json])

\* callTool threw new Error(message)
Thrown(message) == Some([kind |-> "error", message |-> message, json |-> JNull])

\* handle() threw before its try block: the promise `void handle(json)`
\* discards is rejected
Unhandled(msg) == Handler(msg, "rejected", None, None, None, "none", None, <<>>)

\* The runtime has not ended the process
Running == \A h \in 1..Len(handlers) : handlers[h].pc # "exited"

\* handle() returned without awaiting anything
Returned(msg) == Handler(msg, "returned", None, None, None, "none", None, <<>>)

\* handle() awaits callTool, which has settled
Settled(msg, outcome, db) == Handler(msg, "settled", outcome, None, None, "none", None, db)

\* void handle(json): the call is started on the next message
Begin(handler) ==
    /\ inbox' = Tail(inbox)
    /\ handlers' = Append(handlers, handler)

\* writeMessage(payload), called by handler h: one write of the whole frame
writeMessage(h, payload) ==
    /\ written' = Append(written, [by |-> h, payload |-> payload])
    /\ stdout' = stdout \o Eager(FrameOf, Eager(Stringify, payload))

\* Nothing is written to the Store
Untouched == UNCHANGED <<projects, quests, tasks, now, last, framerVars, journal, events>>

NoPatch == [state |-> None, estimatePoints |-> None, actualPoints |-> None, blockers |-> None]

\* The journal after the mutation that `last'` describes, made by handler h
Journaled(h, patch) ==
    journal' = IF last'.ret = None THEN journal
               ELSE Append(journal, [by |-> h, op |-> last'.op, id |-> last'.arg,
                                     patch |-> patch])

Wrap(key, json) == JObj(<<Member(key, json)>>)

\* case "list_projects"
ListProjectsCall(h, m) ==
    /\ \E rows \in NewestFirst(1..Len(projects), projects) :
          Begin(Settled(m, Result(Wrap(<<"p", "r", "o", "j", "e", "c", "t", "s">>,
                                       JArr([i \in 1..Len(rows) |-> ProjectJson(projects[rows[i]])]))),
                        <<"listProjects">>))
    /\ Untouched

\* A get_project_pulse that stores the completion it computed as the
\* project's health score
GetProjectPulseCallStoring(h, m) ==
    /\ IF ~IsString(m.args.project_id)
       THEN Begin(Settled(m, Thrown(ProjectIdRequired), <<>>)) /\ UNCHANGED projects
       ELSE LET id == Get(m.args.project_id).v
            IN  IF id \notin 1..Len(projects)
                THEN Begin(Settled(m, Thrown(ProjectNotFound), <<"getProject">>)) /\ UNCHANGED projects
                ELSE /\ Begin(Settled(m,
                          Result(JObj(<< Member(<<"p", "r", "o", "j", "e", "c", "t">>, ProjectJson(projects[id])),
                                         Member(<<"p", "u", "l", "s", "e">>,
                                                PulseJson(getProjectPulse(tasks, quests, id, now))) >>)),
                          <<"getProject", "getProjectPulse">>))
                     /\ projects' = [projects EXCEPT ![id].healthScore =
                                        getProjectPulse(tasks, quests, id, now).completionPercent]
    /\ UNCHANGED <<quests, tasks, now, last, framerVars, journal, events>>

\* case "get_project_pulse"; getProject looks the id up
GetProjectPulseCall(h, m) ==
    /\ IF ~IsString(m.args.project_id)
       THEN Begin(Settled(m, Thrown(ProjectIdRequired), <<>>))
       ELSE LET id == Get(m.args.project_id).v
            IN  IF id \notin 1..Len(projects)
                THEN Begin(Settled(m, Thrown(ProjectNotFound), <<"getProject">>))
                ELSE Begin(Settled(m,
                        Result(JObj(<< Member(<<"p", "r", "o", "j", "e", "c", "t">>, ProjectJson(projects[id])),
                                       Member(<<"p", "u", "l", "s", "e">>,
                                              PulseJson(getProjectPulse(tasks, quests, id, now))) >>)),
                        <<"getProject", "getProjectPulse">>))
    /\ Untouched

\* listTasks(filter): the rows the two filters leave
ListedTasks(projectId, state) ==
    IF TruthyId(projectId)
    THEN { i \in ProjectTasks(tasks, quests, Get(projectId)) :
             state # None => tasks[i].state = Get(state) }
    ELSE { i \in 1..Len(tasks) : state # None => tasks[i].state = Get(state) }

\* case "list_tasks"
ListTasksCall(h, m) ==
    /\ \E rows \in NewestFirst(ListedTasks(StringOrNone(m.args.project_id),
                                           toTaskState(m.args.state)), tasks) :
          Begin(Settled(m, Result(Wrap(<<"t", "a", "s", "k", "s">>,
                                       JArr([i \in 1..Len(rows) |-> TaskJson(tasks[rows[i]])]))),
                        <<"listTasks">>))
    /\ Untouched

\* The quests of a project that quests.find(...) of ensureQuest may return:
\* General Backlog quests that no other one precedes in priority
BacklogQuests(projectId) ==
    LET found == { q \in 1..Len(quests) :
                     /\ quests[q].projectId = projectId
                     /\ ToLowerCase(quests[q].title) = <<"g", "e", "n", "e", "r", "a", "l", " ", "b", "a", "c", "k", "l", "o", "g">> }
    IN  { q \in found : \A r \in found : quests[r].priority <= quests[q].priority }

\* An ensureQuest that does not look for the quest before creating it
ensureQuestAnew(h, m, projectId, questId) ==
    IF TruthyId(questId)
    THEN /\ Begin(Handler(m, "ensured", None, questId, None, "none", None, <<>>))
         /\ Untouched
    ELSE IF ~TruthyId(projectId)
    THEN /\ Begin(Settled(m, Thrown(QuestRequired), <<>>))
         /\ Untouched
    ELSE /\ createQuest(Get(projectId), GeneralBacklog, Some("active"), Some(2))
         /\ Journaled(h, NoPatch)
         /\ Begin(IF last'.ret = None
                  THEN Settled(m, Thrown(ForeignKeyFailed), <<"listQuests", "createQuest">>)
                  ELSE Handler(m, "ensured", None, Some(Get(last'.ret).id), None, "none", None,
                               <<"listQuests", "createQuest">>))
         /\ UNCHANGED events

\* ensureQuest(projectId, questId), called by create_task before its await
ensureQuest(h, m, projectId, questId) ==
    IF TruthyId(questId)
    THEN /\ Begin(Handler(m, "ensured", None, questId, None, "none", None, <<>>))
         /\ Untouched
    ELSE IF ~TruthyId(projectId)
    THEN /\ Begin(Settled(m, Thrown(QuestRequired), <<>>))
         /\ Untouched
    ELSE IF BacklogQuests(Get(projectId)) # {}
    THEN /\ \E q \in BacklogQuests(Get(projectId)) :
               Begin(Handler(m, "ensured", None, Some(q), None, "none", None, <<"listQuests">>))
         /\ Untouched
    ELSE /\ createQuest(Get(projectId), GeneralBacklog, Some("active"), Some(2))
         /\ Journaled(h, NoPatch)
         /\ Begin(IF last'.ret = None
                  THEN Settled(m, Thrown(ForeignKeyFailed), <<"listQuests", "createQuest">>)
                  ELSE Handler(m, "ensured", None, Some(Get(last'.ret).id), None, "none", None,
                               <<"listQuests", "createQuest">>))
         /\ UNCHANGED events

\* case "create_task", up to `await ensureQuest(...)`
CreateTaskCall(h, m) ==
    IF ~IsString(m.args.title)
    THEN /\ Begin(Settled(m, Thrown(TitleRequired), <<>>))
         /\ Untouched
    ELSE ensureQuest(h, m, StringOrNone(m.args.project_id), StringOrNone(m.args.quest_id))

\* The patch update_task builds from the arguments
PatchOf(args) ==
    [ state |-> toTaskState(args.state),
      estimatePoints |-> IF IsNumber(args.estimate_points)
                         THEN Some(Get(args.estimate_points).v) ELSE None,
      actualPoints |-> None,
      blockers |-> IF IsArray(args.blockers) THEN Some(Get(args.blockers).v) ELSE None ]

\* case "update_task"
UpdateTaskCall(h, m) ==
    IF ~IsString(m.args.task_id)
    THEN /\ Begin(Settled(m, Thrown(TaskIdRequired), <<>>))
         /\ Untouched
    ELSE /\ updateTask(Get(m.args.task_id).v, PatchOf(m.args))
         /\ Journaled(h, PatchOf(m.args))
         /\ Begin(Settled(m, IF last'.ret = None THEN Thrown(TaskNotFound)
                             ELSE Result(Wrap(<<"t", "a", "s", "k">>, TaskJson(Get(last'.ret)))),
                          <<"updateTask">>))
         /\ UNCHANGED events

\* case "complete_task"
CompleteTaskCall(h, m) ==
    IF ~IsString(m.args.task_id)
    THEN /\ Begin(Settled(m, Thrown(TaskIdRequired), <<>>))
         /\ Untouched
    ELSE /\ completeTask(Get(m.args.task_id).v)
         /\ Journaled(h, NoPatch)
         /\ Begin(Settled(m, IF last'.ret = None THEN Thrown(TaskNotFound)
                             ELSE Result(Wrap(<<"t", "a", "s", "k">>, TaskJson(Get(last'.ret)))),
                          <<"completeTask">>))
         /\ UNCHANGED events

\* A log that keeps the latest event only
logSessionEventOverwriting(E, cwd, command) ==
    <<[id |-> Len(E) + 1, cwd |-> cwd, command |-> command]>>

\* logSessionEvent(input): one INSERT INTO session_events with a new id
logSessionEvent(E, cwd, command) ==
    Append(E, [id |-> Len(E) + 1, cwd |-> cwd, command |-> command])

\* case "log_session_event"
LogSessionEventCall(h, m) ==
    IF ~IsString(m.args.cwd) \/ ~IsString(m.args.command)
    THEN /\ Begin(Settled(m, Thrown(CwdRequired), <<>>))
         /\ Untouched
    ELSE LET logged == logSessionEvent(events, Get(m.args.cwd).v, Get(m.args.command).v)
             event == logged[Len(logged)]
         IN  /\ events' = logged
             /\ Begin(Settled(m, Result(Wrap(<<"e", "v", "e", "n", "t">>,
                                             JObj(<< Member(<<"i", "d">>, IdJson(event.id)),
                                                     Member(<<"c", "w", "d">>, JStr(Texts[event.cwd])),
                                                     Member(<<"c", "o", "m", "m", "a", "n", "d">>, JStr(Texts[event.command])) >>))),
                              <<"logSessionEvent">>))
             /\ UNCHANGED <<projects, quests, tasks, now, last, framerVars, journal>>

\* A fallback whose summary is the bare reason
heuristicFallbackBare(heuristic) ==
    IF heuristic # None
    THEN [ summary |-> ReasonText(Get(heuristic).reason),
           recommendedTaskIds |-> <<Get(heuristic).taskId>>,
           provider |-> <<"h", "e", "u", "r", "i", "s", "t", "i", "c">> ]
    ELSE [ summary |-> <<"N", "o", " ", "a", "c", "t", "i", "v", "e", " ", "t", "a", "s", "k", "s", " ", "y", "e", "t", ".">>,
           recommendedTaskIds |-> <<>>,
           provider |-> <<"h", "e", "u", "r", "i", "s", "t", "i", "c">> ]

\* heuristicFallback(context)
heuristicFallback(heuristic) ==
    IF heuristic # None
    THEN [ summary |-> <<"M", "o", "m", "e", "n", "t", "u", "m", " ", "m", "o", "v", "e", ":", " ">> \o ReasonText(Get(heuristic).reason),
           recommendedTaskIds |-> <<Get(heuristic).taskId>>,
           provider |-> <<"h", "e", "u", "r", "i", "s", "t", "i", "c">> ]
    ELSE [ summary |-> <<"N", "o", " ", "a", "c", "t", "i", "v", "e", " ", "t", "a", "s", "k", "s", " ", "y", "e", "t", ".", " ", "C", "r", "e", "a", "t", "e", " ", "a", " ", "q", "u", "e", "s", "t", " ", "a", "n", "d", " ", "d", "e", "f", "i", "n", "e", " ", "t", "h", "e", " ", "f", "i", "r", "s", "t", " ", "c", "o", "n", "c", "r", "e", "t", "e", " ", "t", "a", "s", "k", ".">>,
           recommendedTaskIds |-> <<>>,
           provider |-> <<"h", "e", "u", "r", "i", "s", "t", "i", "c">> ]

\* What the advisor service may do with the request fetch sends
AdvisorOutcomes ==
    { "unreachable",   \* fetch rejects
      "status",        \* a response whose status is not a success
      "notjson",       \* a body that is not JSON
      "nocontent",     \* JSON without choices[0].message.content
      "badcontent",    \* a content that is not JSON
      "nullcontent",   \* the content "null"
      "nofields",      \* the content "{}"
      "full" }         \* a content with summary and recommendedTaskIds

\* OpenAIProvider.recommend after `await fetch(...)`: what it returns
\* (None is null), or the message of what it throws
recommend(outcome) ==
    CASE outcome = "unreachable" -> [threw |-> TRUE, message |-> FetchFailed, llm |-> None]
      [] outcome = "notjson" -> [threw |-> TRUE, message |-> JsonBodyFailed, llm |-> None]
      [] outcome \in {"status", "nocontent", "badcontent", "nullcontent"} ->
            [threw |-> FALSE, message |-> <<>>, llm |-> None]
      [] outcome = "nofields" ->
            [threw |-> FALSE, message |-> <<>>,
             llm |-> Some([ summary |-> <<"F", "o", "c", "u", "s", " ", "o", "n", " ", "t", "h", "e", " ", "h", "i", "g", "h", "e", "s", "t", "-", "i", "m", "p", "a", "c", "t", " ", "u", "n", "b", "l", "o", "c", "k", "e", "d", " ", "t", "a", "s", "k", ".">>,
                            recommendedTaskIds |-> <<>>,
                            provider |-> <<"o", "p", "e", "n", "a", "i">> ])]
      [] outcome = "full" ->
            [threw |-> FALSE, message |-> <<>>,
             llm |-> Some([ summary |-> <<"S", "h", "i", "p", " ", "i", "t">>,
                            recommendedTaskIds |-> <<1>>,
                            provider |-> <<"o", "p", "e", "n", "a", "i">> ])]

\* The object get_next_task returns
NextTaskJson(heuristic, llm) ==
    JObj(<< Member(<<"r", "e", "c", "o", "m", "m", "e", "n", "d", "a", "t", "i", "o", "n">>, RecommendationJson(heuristic)),
            Member(<<"s", "u", "m", "m", "a", "r", "y">>, JStr(llm.summary)),
            Member(<<"p", "r", "o", "v", "i", "d", "e", "r">>, JStr(llm.provider)),
            Member(<<"r", "e", "c", "o", "m", "m", "e", "n", "d", "e", "d", "T", "a", "s", "k", "I", "d", "s">>,
                   JArr([i \in 1..Len(llm.recommendedTaskIds) |-> IdJson(llm.recommendedTaskIds[i])])) >>)

\* case "get_next_task", up to `await fetch(...)` or, without a provider
\* or an API key, to the heuristic fallback
GetNextTaskCall(h, m) ==
    /\ getNextTaskRecommendation(StringOrNone(m.args.project_id))
    /\ LET heuristic == last'.ret
           reads == <<"getNextTaskRecommendation", "listProjects", "listTaskContexts">>
       IN  IF env.provider = "openai" /\ env.apiKey
           THEN Begin(Handler(m, "fetching", None, None, heuristic, "asked", None, reads))
           ELSE Begin(Handler(m, "settled",
                              Result(NextTaskJson(heuristic, heuristicFallback(heuristic))),
                              None, heuristic, "none", Some(heuristicFallback(heuristic)), reads))
    /\ UNCHANGED <<journal, events>>

\* callTool(name, args), up to its first await
callTool(h, m) ==
    LET name == IF m.name = None THEN <<>> ELSE Get(m.name)
    IN  CASE name = ListProjects -> ListProjectsCall(h, m)
          [] name = GetProjectPulse -> GetProjectPulseCall(h, m)
          [] name = ListTasks -> ListTasksCall(h, m)
          [] name = CreateTaskTool -> CreateTaskCall(h, m)
          [] name = UpdateTaskTool -> UpdateTaskCall(h, m)
          [] name = CompleteTaskTool -> CompleteTaskCall(h, m)
          [] name = GetNextTask -> GetNextTaskCall(h, m)
          [] name = LogSessionEvent -> LogSessionEventCall(h, m)
          [] OTHER -> /\ Begin(Settled(m, Thrown(UnknownTool(name)), <<>>))
                      /\ Untouched

\* The result of initialize
InitializeResult ==
    JObj(<< Member(<<"p", "r", "o", "t", "o", "c", "o", "l", "V", "e", "r", "s", "i", "o", "n">>, JStr(<<"2", "0", "2", "4", "-", "1", "1", "-", "0", "5">>)),
            Member(<<"c", "a", "p", "a", "b", "i", "l", "i", "t", "i", "e", "s">>, Wrap(<<"t", "o", "o", "l", "s">>, JObj(<<>>))),
            Member(<<"s", "e", "r", "v", "e", "r", "I", "n", "f", "o">>, JObj(<< Member(<<"n", "a", "m", "e">>, JStr(<<"p", "r", "o", "j", "e", "c", "t", "-", "a", "t", "l", "a", "s", "-", "m", "c", "p">>)),
                                         Member(<<"v", "e", "r", "s", "i", "o", "n">>, JStr(<<"0", ".", "1", ".", "0">>)) >>)) >>)

\* The result of tools/list; of each tool its name is written
ToolsListResult == Wrap(<<"t", "o", "o", "l", "s">>, JArr([i \in 1..Len(tools) |-> Wrap(<<"n", "a", "m", "e">>, JStr(tools[i]))]))

\* The result of tools/call
ToolCallResult(json) ==
    JObj(<< Member(<<"c", "o", "n", "t", "e", "n", "t">>,
                   JArr(<< JObj(<< Member(<<"t", "y", "p", "e">>, JStr(<<"t", "e", "x", "t">>)),
                                   Member(<<"t", "e", "x", "t">>, JStr(Eager(Stringify, json))) >>) >>)),
            Member(<<"s", "t", "r", "u", "c", "t", "u", "r", "e", "d", "C", "o", "n", "t", "e", "n", "t">>, json) >>)

\* A handle that returns at once only on a message without an id
SilentWithoutId(m) == m.id = None

\* A handle that also returns at once on a method it does not know
SilentOnUnknown(m) ==
    \/ m.id = None
    \/ m.method \notin {Initialize, ToolsList, ToolsCall, Ping}

\* A handle that looks for the id only when the method is not tools/call
SilentUnlessToolCall(m) ==
    \/ m.method = Initialized
    \/ (m.id = None /\ m.method # ToolsCall)

\* The messages handle returns on before anything else: the notification
\* and every message without an id (undefined or null)
Silent(m) == m.method = Initialized \/ m.id = None

\* handle(message), up to its first await or its return. JSON.parse gives
\* null for the body "null", and reading `message.method` of null throws a
\* TypeError.
handle(h, m) ==
    IF m = JNull
    THEN /\ Begin(Unhandled(m))
         /\ Untouched
         /\ UNCHANGED <<written, stdout>>
    ELSE IF Silent(m)
    THEN /\ Begin(Returned(m))
         /\ Untouched
         /\ UNCHANGED <<written, stdout>>
    ELSE IF m.method = ToolsCall
    THEN /\ callTool(h, m)
         /\ UNCHANGED <<written, stdout>>
    ELSE /\ Begin(Returned(m))
         /\ Untouched
         /\ writeMessage(h, CASE m.method = Initialize -> ok(Get(m.id), InitializeResult)
                              [] m.method = ToolsList -> ok(Get(m.id), ToolsListResult)
                              [] m.method = Ping -> ok(Get(m.id), Wrap(<<"p", "o", "n", "g">>, JBool(TRUE)))
                              [] OTHER -> fail(Get(m.id), UnknownMethod(m.method), None))

\* A framer that hands over the next message only when every earlier call
\* has returned
DispatchInOrder ==
    /\ Running
    /\ \A h \in 1..Len(handlers) : handlers[h].pc = "returned"
    /\ inbox # <<>>
    /\ handle(Len(handlers) + 1, Head(inbox))
    /\ UNCHANGED env

\* The framer hands the next message to handle()
Dispatch ==
    /\ Running
    /\ inbox # <<>>
    /\ handle(Len(handlers) + 1, Head(inbox))
    /\ UNCHANGED env

\* create_task after `await ensureQuest(...)`: db.createTask
ContinueCreateTask(h) ==
    /\ Running
    /\ h \in 1..Len(handlers)
    /\ handlers[h].pc = "ensured"
    /\ LET m == handlers[h].msg
           estimate == IF IsNumber(m.args.estimate_points)
                       THEN Some(Get(m.args.estimate_points).v) ELSE Some(10)
       IN  /\ createTask(Get(handlers[h].questId), None, estimate, None)
           /\ Journaled(h, [NoPatch EXCEPT !.estimatePoints = estimate])
           /\ handlers' = [handlers EXCEPT ![h] =
                  [@ EXCEPT !.pc = "settled",
                            !.outcome = IF last'.ret = None THEN Thrown(ForeignKeyFailed)
                                        ELSE Result(Wrap(<<"t", "a", "s", "k">>, TaskJson(Get(last'.ret)))),
                            !.db = Append(@, "createTask")]]
    /\ UNCHANGED <<env, inbox, written, stdout, events>>

\* get_next_task after `await fetch(...)`: the rest of recommend and of
\* getRecommendation
AdvisorResponds(h, outcome) ==
    /\ Running
    /\ h \in 1..Len(handlers)
    /\ handlers[h].pc = "fetching"
    /\ LET r == recommend(outcome)
           llm == IF r.llm # None THEN Get(r.llm) ELSE heuristicFallback(handlers[h].heuristic)
       IN  handlers' = [handlers EXCEPT ![h] =
              [@ EXCEPT !.pc = "settled",
                        !.advisor = outcome,
                        !.llm = IF r.threw THEN None ELSE Some(llm),
                        !.outcome = IF r.threw THEN Thrown(r.message)
                                    ELSE Result(NextTaskJson(handlers[h].heuristic, llm))]]
    /\ UNCHANGED <<storeVars, framerVars, env, inbox, written, stdout, events, journal>>

\* handle() after `await callTool(...)`: the response is written
Resume(h) ==
    /\ Running
    /\ h \in 1..Len(handlers)
    /\ handlers[h].pc = "settled"
    /\ LET id == Get(handlers[h].msg.id)
           outcome == Get(handlers[h].outcome)
       IN  writeMessage(h, IF outcome.kind = "result"
                           THEN ok(id, ToolCallResult(outcome.json))
                           ELSE fail(id, outcome.message,
                                     Some(Wrap(<<"s", "t", "a", "c", "k">>, JStr(StackOf(outcome.message))))))
    /\ handlers' = [handlers EXCEPT ![h].pc = "returned"]
    /\ UNCHANGED <<storeVars, framerVars, env, inbox, events, journal>>

\* No handler is attached to the rejection of handle()'s promise: once
\* the callbacks that were ready have run, the runtime reports the unhandled
\* rejection and ends the process with the exit code 1
Exit(h) ==
    /\ Running
    /\ h \in 1..Len(handlers)
    /\ handlers[h].pc = "rejected"
    /\ handlers' = [handlers EXCEPT ![h].pc = "exited"]
    /\ UNCHANGED <<storeVars, framerVars, env, inbox, written, stdout, events, journal>>

----------------------------------------------------------------------------
(* The MCP server at work: the Store it starts on and the messages a       *)
(* client sends                                                            *)

\* A method and a tool the server does not know; an id that names no row
OddMethod == <<"r", EAcute, "s", "u", "m", EAcute>>
OddTool == <<"n", "o", "p", "e">>
AbsentId == 9

ATitle == Str(3)

Call_(name, args) == [method |-> ToolsCall, name |-> Some(name), args |-> args]

Plain(method) == [method |-> method, name |-> None, args |-> NoArgs]

\* What a client sends, before an id is given to it
Requests ==
    << Plain(Ping),
       Plain(Initialize),
       Plain(ToolsList),
       Plain(Initialized),
       Plain(OddMethod),
       Plain(ToolsCall),
       Call_(OddTool, NoArgs),
       Call_(ListProjects, NoArgs),
       Call_(GetProjectPulse, [NoArgs EXCEPT !.project_id = Some(Str(1))]),
       Call_(GetProjectPulse, NoArgs),
       Call_(GetProjectPulse, [NoArgs EXCEPT !.project_id = Some(Num(1))]),
       Call_(GetProjectPulse, [NoArgs EXCEPT !.project_id = Some(Str(AbsentId))]),
       Call_(ListTasks, NoArgs),
       Call_(ListTasks, [NoArgs EXCEPT !.project_id = Some(Str(1)), !.state = Some(Str("todo"))]),
       Call_(CreateTaskTool, [NoArgs EXCEPT !.title = Some(ATitle), !.project_id = Some(Str(1))]),
       Call_(CreateTaskTool, [NoArgs EXCEPT !.title = Some(ATitle), !.quest_id = Some(Str(1)),
                                            !.estimate_points = Some(Num(3))]),
       Call_(CreateTaskTool, [NoArgs EXCEPT !.title = Some(ATitle), !.quest_id = Some(Str(AbsentId))]),
       Call_(CreateTaskTool, [NoArgs EXCEPT !.title = Some(ATitle), !.project_id = Some(Str(AbsentId))]),
       Call_(CreateTaskTool, [NoArgs EXCEPT !.project_id = Some(Str(1))]),
       Call_(CreateTaskTool, [NoArgs EXCEPT !.title = Some(Num(1)), !.quest_id = Some(Str(1))]),
       Call_(CreateTaskTool, [NoArgs EXCEPT !.title = Some(ATitle)]),
       Call_(UpdateTaskTool, [NoArgs EXCEPT !.task_id = Some(Str(1)), !.state = Some(Str("blocked")),
                                            !.blockers = Some(Arr(<<"waiting">>))]),
       Call_(UpdateTaskTool, [NoArgs EXCEPT !.task_id = Some(Str(1)), !.state = Some(Str("done")),
                                            !.estimate_points = Some(Num(3))]),
       Call_(UpdateTaskTool, [NoArgs EXCEPT !.state = Some(Str("done"))]),
       Call_(UpdateTaskTool, [NoArgs EXCEPT !.task_id = Some(Str(AbsentId))]),
       Call_(CompleteTaskTool, [NoArgs EXCEPT !.task_id = Some(Str(1))]),
       Call_(CompleteTaskTool, [NoArgs EXCEPT !.task_id = Some(Num(1))]),
       Call_(GetNextTask, NoArgs),
       Call_(GetNextTask, [NoArgs EXCEPT !.project_id = Some(Str(2))]),
       Call_(LogSessionEvent, [NoArgs EXCEPT !.cwd = Some(Str(1)), !.command = Some(Str(2))]),
       Call_(LogSessionEvent, [NoArgs EXCEPT !.cwd = Some(Str(1))]) >>

Sent(id, request) == Message(id, request.method, request.name, request.args)

\* The most messages a script holds
MaxMessages == 2

\* What arrives on stdin: one message, with an id or without; two
\* requests with the ids 1 and 2; or a message without an id and then a
\* ping or the notification with the id 2
Scripts ==
    { <<Sent(id, Requests[a])>> : id \in {None, Some(1)}, a \in 1..Len(Requests) }
    \cup { <<Sent(Some(1), Requests[a]), Sent(Some(2), Requests[b])>> :
             a \in 1..Len(Requests), b \in 1..Len(Requests) }
    \cup { <<Sent(None, Requests[a]), Sent(Some(2), Plain(method))>> :
             a \in 1..Len(Requests), method \in {Ping, Initialized} }

\* LLM_PROVIDER and OPENAI_API_KEY
Environments ==
    { [apiKey |-> FALSE, provider |-> "openai"],
      [apiKey |-> TRUE, provider |-> "openai"],
      [apiKey |-> TRUE, provider |-> "none"] }

FirstQuest ==
    [id |-> 1, projectId |-> 1, title |-> OtherTitle, state |-> "active",
     priority |-> DefaultPriority, updatedAt |-> StartTime]

FirstTask == NewTask(1, 1, None, None, None, StartTime)

\* The Store after the import, a createQuest and a createTask
FirstProjects == touchProjectByQuest(ImportedProjects, <<FirstTask>>, <<FirstQuest>>, 1, StartTime)

ServerInit ==
    /\ FramerIdle
    /\ quests = <<FirstQuest>>
    /\ tasks = <<FirstTask>>
    /\ projects = FirstProjects
    /\ now = StartTime
    /\ last = Call("createTask", 1, Some(FirstTask))
    /\ env \in Environments
    /\ inbox \in Scripts
    /\ handlers = <<>>
    /\ written = <<>>
    /\ stdout = <<>>
    /\ events = <<>>
    /\ journal = <<>>

ServerNext ==
    \/ Dispatch
    \/ \E h \in 1..Len(handlers) : ContinueCreateTask(h)
    \/ \E h \in 1..Len(handlers), outcome \in AdvisorOutcomes : AdvisorResponds(h, outcome)
    \/ \E h \in 1..Len(handlers) : Resume(h)

SpecServer == ServerInit /\ [][ServerNext]_vars

\* A get_next_task request and, after it, a request of another kind or
\* of the same
AdvisorScripts ==
    { <<Sent(Some(1), Call_(GetNextTask, args)), Sent(Some(2), other)>> :
        args \in {NoArgs, [NoArgs EXCEPT !.project_id = Some(Str(2))]},
        other \in { Plain(Ping),
                    Plain(OddMethod),
                    Call_(CreateTaskTool, [NoArgs EXCEPT !.title = Some(ATitle),
                                                         !.project_id = Some(Str(1))]),
                    Call_(CompleteTaskTool, [NoArgs EXCEPT !.task_id = Some(Str(1))]),
                    Call_(GetNextTask, NoArgs) } }

\* The server with OPENAI_API_KEY set, on those scripts
AdvisorInit ==
    /\ ServerInit
    /\ env = [apiKey |-> TRUE, provider |-> "openai"]
    /\ inbox \in AdvisorScripts

\* The event loop runs every callback that is ready; nothing makes the
\* advisor service answer
SpecServerFair ==
    /\ AdvisorInit /\ [][ServerNext]_vars
    /\ WF_vars(Dispatch)
    /\ \A h \in 1..MaxMessages : WF_vars(ContinueCreateTask(h)) /\ WF_vars(Resume(h))

----------------------------------------------------------------------------
(* Claims about the Store *)

TaskMutations == {"createTask", "updateTask", "completeTask"}
QuestMutations == {"createQuest", "updateQuest"}

\* The last call was a quest or task mutation that succeeded
Mutated == last.op \in TaskMutations \cup QuestMutations /\ IsSome(last.ret)

\* The project that owns the row the last mutation returned
Owner ==
    IF last.op \in QuestMutations THEN Get(last.ret).projectId
    ELSE quests[Get(last.ret).questId].projectId

\* C1: every stored task is in state "done" if and only if its completedAt
\* is non-null.
C1_DoneIffCompletedAt ==
    \A i \in 1..Len(tasks) : (tasks[i].state = "done") <=> IsSome(tasks[i].completedAt)

\* C5: every project's stored healthScore lies in [0,100]; a project with
\* zero tasks whose health was just recomputed has pulse completion 0 and
\* stale true, and its health is the clamped penalty value 0.
C5_HealthInRange ==
    /\ \A p \in 1..Len(projects) : projects[p].healthScore \in 0..100
    /\ (Mutated /\ ProjectTasks(tasks, quests, Owner) = {}) =>
          LET pulse == getProjectPulse(tasks, quests, Owner, now)
          IN  /\ pulse.completionPercent = 0
              /\ pulse.stale
              /\ projects[Owner].healthScore = 0

\* A quest was just created in a project without tasks, whose health fell
\* from the imported 55 to the clamped 0.
C5_Witness ==
    /\ last.op = "createQuest"
    /\ IsSome(last.ret)
    /\ ProjectTasks(tasks, quests, Owner) = {}
    /\ projects[Owner].healthScore = 0

\* Twice the sum the specification gives for the health score:
\* completion*0.5 + min(25, velocity7d*3) + (blocked>0 ? -12 : 8) + (stale ? -16 : 8)
StatedSumTwice(pulse) ==
    pulse.completionPercent
    + (IF pulse.velocity7d * 3 < 25 THEN 6 * pulse.velocity7d ELSE 50)
    + (IF pulse.tasksBlocked > 0 THEN -24 ELSE 16)
    + (IF pulse.stale THEN -32 ELSE 16)

\* C6 as stated: right after every successful quest or task mutation the
\* owning project's healthScore equals clamp(sum, 0, 100), the sum taken on
\* the project's pulse at that moment.
C6_HealthIsClampedSum ==
    Mutated =>
        LET sum2 == StatedSumTwice(getProjectPulse(tasks, quests, Owner, now))
        IN  2 * projects[Owner].healthScore
               = (IF sum2 < 0 THEN 0 ELSE IF sum2 > 200 THEN 200 ELSE sum2)

\* C6 amended: right after every successful quest or task mutation the
\* owning project's healthScore equals clamp(round(sum), 0, 100), round
\* being the nearest integer with halves rounded up.
C6_HealthIsClampedRoundedSum ==
    Mutated =>
        LET sum2 == StatedSumTwice(getProjectPulse(tasks, quests, Owner, now))
        IN  \E h \in -100..200 :
               /\ 2 * h - 1 <= sum2
               /\ sum2 <= 2 * h
               /\ projects[Owner].healthScore
                     = (IF h < 0 THEN 0 ELSE IF h > 100 THEN 100 ELSE h)

\* A task was just completed in a project with one task of three done
\* (33 percent): the sum is a half-integer and the stored health its
\* rounding.
C6_Witness ==
    /\ last.op = "completeTask"
    /\ IsSome(last.ret)
    /\ getProjectPulse(tasks, quests, Owner, now).completionPercent = 33
    /\ StatedSumTwice(getProjectPulse(tasks, quests, Owner, now)) % 2 = 1
    /\ projects[Owner].healthScore > 0

\* C7: completeTask on an existing task sets actualPoints to the task's
\* estimatePoints when it was unset, keeps it when it was set, and leaves
\* the task in state done.
C7_CompleteTaskPoints ==
    [][ (last'.op = "completeTask" /\ IsSome(last'.ret)) =>
          LET i == last'.arg
          IN  /\ tasks'[i].state = "done"
              /\ Get(last'.ret) = tasks'[i]
              /\ (tasks[i].actualPoints = None =>
                     tasks'[i].actualPoints = Some(tasks[i].estimatePoints))
              /\ (tasks[i].actualPoints # None =>
                     tasks'[i].actualPoints = tasks[i].actualPoints) ]_vars

\* completeTask returned a done task whose actualPoints (3) differ from its
\* estimate: the points recorded before were kept.
C7_Witness ==
    /\ last.op = "completeTask"
    /\ IsSome(last.ret)
    /\ tasks[last.arg].state = "done"
    /\ tasks[last.arg].actualPoints = Some(3)
    /\ tasks[last.arg].estimatePoints # 3

----------------------------------------------------------------------------
(* Claims about the Recommendation Scorer *)

OpenStates == {"todo", "doing", "review"}

\* The score the specification states for task i:
\* clamp(stateWeight + questPriority*11 + (active ? 18 : 0) - blockerCount*20, 0, 100)
StatedScore(i) ==
    LET q == quests[tasks[i].questId]
        weight == CASE tasks[i].state = "doing" -> 40
                    [] tasks[i].state = "review" -> 34
                    [] tasks[i].state = "todo" -> 24
        raw == weight + q.priority * 11 + (IF q.state = "active" THEN 18 ELSE 0)
                 - Len(tasks[i].blockers) * 20
    IN  IF raw < 0 THEN 0 ELSE IF raw > 100 THEN 100 ELSE raw

\* The open tasks under a filter that is absent or names one project
OpenUnder(filter) ==
    { i \in 1..Len(tasks) :
        /\ tasks[i].state \in OpenStates
        /\ (filter # None => quests[tasks[i].questId].projectId = Get(filter)) }

\* Task j comes strictly before task i in the order quest priority
\* descending, then updatedAt descending
StrictlyBefore(j, i) ==
    \/ quests[tasks[j].questId].priority > quests[tasks[i].questId].priority
    \/ /\ quests[tasks[j].questId].priority = quests[tasks[i].questId].priority
       /\ tasks[j].updatedAt > tasks[i].updatedAt

Recommended == last.op = "getNextTaskRecommendation"

\* The filter of the last call is absent or a project id
ProperFilter == last.arg = None \/ Get(last.arg) # EmptyId

C3_ScoreFormula ==
    /\ \A i \in 1..Len(tasks) :
          tasks[i].state \in OpenStates =>
             /\ CandidateOf(tasks, quests, i).score = StatedScore(i)
             /\ CandidateOf(tasks, quests, i).score \in 0..100
    /\ (Recommended /\ last.ret # None) =>
          /\ Get(last.ret).score = StatedScore(Get(last.ret).taskId)
          /\ Get(last.ret).score \in 0..100

\* The scenario of the specification: a todo task of an active priority-3
\* quest without blockers scores 75 and is recommended over a doing task
\* of an active priority-1 quest with one blocker, which scores 49.
C3_Witness ==
    /\ Recommended
    /\ last.ret # None
    /\ Get(last.ret).score = 75
    /\ LET a == Get(last.ret).taskId
       IN  /\ tasks[a].state = "todo"
           /\ quests[tasks[a].questId].priority = 3
           /\ quests[tasks[a].questId].state = "active"
           /\ tasks[a].blockers = <<>>
    /\ \E b \in 1..Len(tasks) :
          /\ tasks[b].state = "doing"
          /\ quests[tasks[b].questId].priority = 1
          /\ quests[tasks[b].questId].state = "active"
          /\ Len(tasks[b].blockers) = 1
          /\ CandidateOf(tasks, quests, b).score = 49

\* Tasks i and j agree in state, quest priority and quest state
AlikeButBlockers(i, j) ==
    /\ tasks[i].state = tasks[j].state
    /\ quests[tasks[i].questId].priority = quests[tasks[j].questId].priority
    /\ quests[tasks[i].questId].state = quests[tasks[j].questId].state

\* C4: of two candidates alike in task state, quest priority and quest
\* state, the one with strictly more blockers never scores higher.
C4_MoreBlockersNeverHigher ==
    \A i, j \in 1..Len(tasks) :
        ( /\ tasks[i].state \in OpenStates
          /\ AlikeButBlockers(i, j)
          /\ Len(tasks[i].blockers) > Len(tasks[j].blockers) ) =>
            CandidateOf(tasks, quests, i).score <= CandidateOf(tasks, quests, j).score

\* Two such candidates were scored, the one with more blockers strictly
\* lower, and the other one was recommended.
C4_Witness ==
    /\ Recommended
    /\ last.ret # None
    /\ \E i \in 1..Len(tasks) :
          LET j == Get(last.ret).taskId
          IN  /\ tasks[i].state \in OpenStates
              /\ AlikeButBlockers(i, j)
              /\ Len(tasks[i].blockers) > Len(tasks[j].blockers)
              /\ CandidateOf(tasks, quests, i).score < Get(last.ret).score

----------------------------------------------------------------------------
(* Claims about the framer *)

\* The number of bytes of the stream delivered so far
Delivered == Len(EncodeAll(sent)) - Len(pending)

\* The offset in the stream at which frame k ends
FrameEnd(k) == Len(EncodeAll(SubSeq(sent, 1, k)))

\* The frames whose last byte has been delivered
Complete == { k \in 1..Len(sent) : FrameEnd(k) <= Delivered }

\* Frame f has a Content-Length header that gives the length of its body
Announces(f) ==
    \E h \in 1..Len(f.headers) :
        f.headers[h] \in { LengthHeader(Len(f.body)), PlainLengthHeader(Len(f.body)) }

\* Every frame of the stream announces its body, which is a JSON text
WellFormed == \A k \in 1..Len(sent) : Announces(sent[k]) /\ sent[k].body \in {NumberBody} \cup { Body(d) : d \in {"1", "2", "3"} }

\* C8: a message announced with Content-Length n >= 0 is handed over only
\* with all n body bytes buffered, and it is those n bytes; in a stream of
\* well-formed frames a frame is handed over exactly when its last byte has
\* been delivered, and until then all its delivered bytes stay buffered.
C8_NoDispatchBeforeBody ==
    /\ \A i \in 1..Len(dispatched) :
          (dispatched[i].length # None /\ Get(dispatched[i].length) >= 0) =>
             /\ dispatched[i].present = Get(dispatched[i].length)
             /\ Len(dispatched[i].payload) = Get(dispatched[i].length)
    /\ WellFormed =>
          /\ Len(dispatched) = Cardinality(Complete)
          /\ buffer = SubSeq(EncodeAll(sent), FrameEnd(Cardinality(Complete)) + 1, Delivered)

\* A message was handed over whose header and part of whose body had been
\* buffered from earlier chunks.
C8_Witness ==
    /\ WellFormed
    /\ \E i \in 1..Len(dispatched) :
          /\ dispatched[i].waited = "body"
          /\ dispatched[i].payload = sent[i].body
          /\ Len(dispatched[i].payload) = 8

\* C9: in a stream of well-formed frames, however it is cut into chunks,
\* the messages handed over so far are the bodies of the frames completely
\* delivered, each once and in the order of arrival.
C9_EachBodyOnceInOrder ==
    WellFormed =>
        /\ ~hung
        /\ [i \in 1..Len(dispatched) |-> dispatched[i].payload]
              = [k \in 1..Cardinality(Complete) |-> sent[k].body]

\* A stream of three frames, two of them with another header before or
\* after Content-Length, has been delivered in chunks that cut through
\* frames, and the three bodies were handed over.
C9_Witness ==
    /\ sent = <<FrameB, FrameC, FrameA>>
    /\ pending = <<>>
    /\ [i \in 1..Len(dispatched) |-> dispatched[i].payload]
          = <<Body("2"), NumberBody, Body("1")>>
    /\ dispatched[1].waited = "header"
    /\ dispatched[2].waited = "body"
    /\ dispatched[3].waited = "nothing"

\* The first frame's header block has no Content-Length line, or one whose
\* value is not a number
NoParseableLength == sent # <<>> /\ sent[1] \in {NoLengthFrame, NoLengthWithBody, BadLengthFrame}

\* C10: when the stream begins with a frame whose header block has no
\* parseable Content-Length and the well-formed frame after it has been
\* delivered, the framer is still serving the stream and has handed over
\* the body of the well-formed frame.
C10_ResyncAfterMalformed ==
    (NoParseableLength /\ pending = <<>>) =>
        /\ ~hung
        /\ \E i \in 1..Len(dispatched) : dispatched[i].payload = sent[2].body

----------------------------------------------------------------------------
(* Claims about the MCP server *)

\* The message handler h was called on
MessageOf(h) == handlers[h].msg

\* The value of the member `key` of a JSON object
MemberOf(object, key) ==
    object.v[CHOOSE i \in 1..Len(object.v) : object.v[i].k = key].v

HasMember(object, key) == \E i \in 1..Len(object.v) : object.v[i].k = key

\* The responses handler h has written
WrittenBy(h) == { i \in 1..Len(written) : written[i].by = h }

\* C11: no response frame is ever written for a message that has no id,
\* whatever its method, and none for notifications/initialized; while only
\* such messages have arrived, the output stream is empty.
C11_NoResponseWithoutId ==
    /\ \A i \in 1..Len(written) :
          /\ MessageOf(written[i].by).id # None
          /\ MessageOf(written[i].by).method # Initialized
    /\ (\A h \in 1..Len(handlers) :
           MessageOf(h).id = None \/ MessageOf(h).method = Initialized) => stdout = <<>>

\* The notification arrived with an id after a tools/call without one;
\* handle() has returned on both and nothing was written.
C11_Witness ==
    /\ Len(handlers) = 2
    /\ MessageOf(1).id = None
    /\ MessageOf(1).method = ToolsCall
    /\ MessageOf(1).name = Some(CompleteTaskTool)
    /\ MessageOf(2).id = Some(2)
    /\ MessageOf(2).method = Initialized
    /\ \A h \in 1..2 : handlers[h].pc = "returned"
    /\ stdout = <<>>

\* C12: every frame written carries the id of the request its handler was
\* called on, and no request is answered more than once, in whatever order
\* the answers are written.
C12_ResponseCarriesRequestId ==
    /\ \A i \in 1..Len(written) :
          /\ MessageOf(written[i].by).id # None
          /\ MemberOf(written[i].payload, <<"i", "d">>) = JNum(Get(MessageOf(written[i].by).id))
    /\ \A h \in 1..Len(handlers) : Cardinality(WrittenBy(h)) <= 1

\* A ping with id 2 was answered before the get_next_task with id 1 that
\* arrived first and waited for the advisor; both answers are written.
C12_Witness ==
    /\ Len(handlers) = 2
    /\ MessageOf(1).name = Some(GetNextTask)
    /\ MessageOf(2).method = Ping
    /\ Len(written) = 2
    /\ written[1].by = 2
    /\ written[2].by = 1
    /\ MemberOf(written[1].payload, <<"i", "d">>) = JNum(2)
    /\ MemberOf(written[2].payload, <<"i", "d">>) = JNum(1)

RECURSIVE ReadFrames(_, _)
\* What a client reads from the stream: the header block up to the blank
\* line, the body of as many bytes as Content-Length says, and again
ReadFrames(bytes, bodies) ==
    LET headerEnd == IndexOf(bytes, HeaderEndMark)
        lengthLine == FindLengthLine(Split(SubSeq(bytes, 1, headerEnd), CRLF))
        length == IF lengthLine = None THEN None ELSE ContentLength(Get(lengthLine))
    IN  IF bytes = <<>> THEN [bodies |-> bodies, rest |-> <<>>]
        ELSE IF headerEnd = -1 \/ length = None \/ Len(bytes) < headerEnd + 4 + Get(length)
        THEN [bodies |-> bodies, rest |-> bytes]
        ELSE ReadFrames(SubSeq(bytes, headerEnd + 4 + Get(length) + 1, Len(bytes)),
                        Append(bodies, SubSeq(bytes, headerEnd + 4 + 1,
                                              headerEnd + 4 + Get(length))))

\* C13: the output stream is a concatenation of complete frames: read by
\* Content-Length, it falls into one body per response written, each the
\* UTF-8 bytes of that response's JSON text, in the order of the writes and
\* with no byte left over.
C13_StdoutIsWholeFrames ==
    LET read == ReadFrames(stdout, <<>>)
    IN  /\ read.rest = <<>>
        /\ Len(read.bodies) = Len(written)
        /\ \A i \in 1..Len(written) :
              read.bodies[i] = Utf8(Stringify(written[i].payload))

\* Two requests were answered, the first with an error whose message has
\* characters of two bytes, the second with a tool result.
C13_Witness ==
    /\ Len(written) = 2
    /\ MessageOf(written[1].by).method = OddMethod
    /\ MessageOf(written[2].by).name = Some(ListProjects)
    /\ Len(Utf8(Stringify(written[1].payload))) > Len(Stringify(written[1].payload))

\* The answers of the advisor service the bridge is to tolerate
AdvisorFaults ==
    {"unreachable", "status", "notjson", "nocontent", "badcontent", "nullcontent", "nofields"}

\* The response handler h has written is an error response
AnsweredWithError(h) ==
    \E i \in WrittenBy(h) : HasMember(written[i].payload, <<"e", "r", "r", "o", "r">>)

\* C14: when the advisor service is unreachable, answers with a status that
\* is not a success, with a body that is not JSON or with JSON that lacks
\* the expected fields, get_next_task settles with a result, the one built
\* from the heuristic fallback, and no error response is written for it.
C14_AdvisorFaultsFallBack ==
    \A h \in 1..Len(handlers) :
        (handlers[h].advisor \in AdvisorFaults /\ handlers[h].outcome # None) =>
            /\ Get(handlers[h].outcome).kind = "result"
            /\ handlers[h].llm = Some(heuristicFallback(handlers[h].heuristic))
            /\ ~AnsweredWithError(h)

\* C15: a get_next_task request that waits for the advisor service is
\* eventually answered, with a result and not with an error, even when the
\* service never answers.
C15_AdvisorCallIsTimeBounded ==
    \A h \in 1..MaxMessages :
        (h <= Len(handlers) /\ handlers[h].pc = "fetching")
            ~> (h <= Len(handlers) /\ WrittenBy(h) # {} /\ ~AnsweredWithError(h))

\* The bridge returned nothing to getRecommendation, or was not asked
BridgeYieldsNothing(h) ==
    /\ MessageOf(h).name = Some(GetNextTask)
    /\ handlers[h].outcome # None
    /\ handlers[h].advisor \in {"none", "status", "nocontent", "badcontent", "nullcontent"}

\* The summary and the ids stated for a pick, or for none
StatedSummary(pick) ==
    IF pick # None THEN <<"M", "o", "m", "e", "n", "t", "u", "m", " ", "m", "o", "v", "e", ":", " ">> \o ReasonText(Get(pick).reason)
    ELSE <<"N", "o", " ", "a", "c", "t", "i", "v", "e", " ", "t", "a", "s", "k", "s", " ", "y", "e", "t", ".", " ", "C", "r", "e", "a", "t", "e", " ", "a", " ", "q", "u", "e", "s", "t", " ", "a", "n", "d", " ", "d", "e", "f", "i", "n", "e", " ", "t", "h", "e", " ", "f", "i", "r", "s", "t", " ", "c", "o", "n", "c", "r", "e", "t", "e", " ", "t", "a", "s", "k", ".">>

StatedIds(pick) == IF pick # None THEN <<IdJson(Get(pick).taskId)>> ELSE <<>>

\* C16: whenever the bridge yields nothing, get_next_task returns the
\* heuristic response: with a pick of the Scorer the summary is "Momentum
\* move: " followed by the pick's reason and recommendedTaskIds holds the
\* pick's taskId alone; without a pick the summary is the fixed message and
\* the list is empty.  The response written carries that result.
C16_HeuristicResponse ==
    \A h \in 1..Len(handlers) :
        BridgeYieldsNothing(h) =>
            LET outcome == Get(handlers[h].outcome)
                pick == handlers[h].heuristic
            IN  /\ outcome.kind = "result"
                /\ MemberOf(outcome.json, <<"s", "u", "m", "m", "a", "r", "y">>) = JStr(StatedSummary(pick))
                /\ MemberOf(outcome.json, <<"r", "e", "c", "o", "m", "m", "e", "n", "d", "e", "d", "T", "a", "s", "k", "I", "d", "s">>) = JArr(StatedIds(pick))
                /\ MemberOf(outcome.json, <<"r", "e", "c", "o", "m", "m", "e", "n", "d", "a", "t", "i", "o", "n">>) = RecommendationJson(pick)
                /\ \A i \in WrittenBy(h) :
                      MemberOf(MemberOf(written[i].payload, <<"r", "e", "s", "u", "l", "t">>), <<"s", "t", "r", "u", "c", "t", "u", "r", "e", "d", "C", "o", "n", "t", "e", "n", "t">>)
                          = outcome.json

\* Two get_next_task requests were answered after the advisor service had
\* refused the one and sent unparseable content for the other: the first
\* had a pick, the second, asking for a project without tasks, had none.
C16_Witness ==
    /\ Len(handlers) = 2
    /\ BridgeYieldsNothing(1)
    /\ BridgeYieldsNothing(2)
    /\ handlers[1].advisor = "status"
    /\ handlers[2].advisor = "badcontent"
    /\ handlers[1].heuristic # None
    /\ handlers[2].heuristic = None
    /\ WrittenBy(1) # {}
    /\ WrittenBy(2) # {}

\* callTool threw while running the tool handler h called
ToolThrew(h) ==
    /\ MessageOf(h).method = ToolsCall
    /\ MessageOf(h).id # None
    /\ handlers[h].outcome # None
    /\ Get(handlers[h].outcome).kind = "error"

\* The response written[i] is an error response with this id and message
IsErrorResponse(i, id, message) ==
    /\ HasMember(written[i].payload, <<"e", "r", "r", "o", "r">>)
    /\ ~HasMember(written[i].payload, <<"r", "e", "s", "u", "l", "t">>)
    /\ MemberOf(written[i].payload, <<"i", "d">>) = JNum(id)
    /\ MemberOf(MemberOf(written[i].payload, <<"e", "r", "r", "o", "r">>), <<"m", "e", "s", "s", "a", "g", "e">>) = JStr(message)

\* C17: when a tool throws for a tools/call with an id, handle() writes,
\* by the time it returns, exactly one response for that request: an error
\* response with the request's id and the message thrown, and no success
\* response; before that nothing is written for the request.
C17_ToolFailureIsOneError ==
    \A h \in 1..Len(handlers) :
        ToolThrew(h) =>
            IF handlers[h].pc = "returned"
            THEN /\ Cardinality(WrittenBy(h)) = 1
                 /\ \A i \in WrittenBy(h) :
                       IsErrorResponse(i, Get(MessageOf(h).id), Get(handlers[h].outcome).message)
            ELSE WrittenBy(h) = {}

\* create_task named a quest that does not exist: the INSERT failed after
\* the await and the error was written for id 1, after the ping with id 2
\* had been answered.
C17_Witness ==
    /\ Len(handlers) = 2
    /\ MessageOf(1).name = Some(CreateTaskTool)
    /\ ToolThrew(1)
    /\ Get(handlers[1].outcome).message = ForeignKeyFailed
    /\ MessageOf(2).method = Ping
    /\ Len(written) = 2
    /\ written[1].by = 2
    /\ written[2].by = 1
    /\ IsErrorResponse(2, 1, ForeignKeyFailed)

\* The message names a method handle() has no case for
UnknownMethodAsked(h) ==
    /\ MessageOf(h).id # None
    /\ MessageOf(h).method \notin {Initialize, ToolsList, ToolsCall, Ping, Initialized}

\* The message calls a tool that is not in the catalogue
UnknownToolAsked(h) ==
    /\ MessageOf(h).id # None
    /\ MessageOf(h).method = ToolsCall
    /\ \A i \in 1..Len(tools) : MessageOf(h).name # Some(tools[i])

\* C18: a request with an id whose method is unknown is answered with one
\* error response carrying its id; so is, once handle() has returned, a
\* tools/call with an id that names no tool of the catalogue; and the
\* requests that arrive after such a request are still answered.
C18_UnknownIsAnsweredWithError ==
    \A h \in 1..Len(handlers) :
        /\ UnknownMethodAsked(h) =>
              /\ Cardinality(WrittenBy(h)) = 1
              /\ \A i \in WrittenBy(h) :
                    IsErrorResponse(i, Get(MessageOf(h).id), UnknownMethod(MessageOf(h).method))
        /\ (UnknownToolAsked(h) /\ handlers[h].pc = "returned") =>
              /\ Cardinality(WrittenBy(h)) = 1
              /\ \A i \in WrittenBy(h) :
                    IsErrorResponse(i, Get(MessageOf(h).id),
                                    UnknownTool(IF MessageOf(h).name = None THEN <<>>
                                                ELSE Get(MessageOf(h).name)))
        /\ ((UnknownMethodAsked(h) \/ UnknownToolAsked(h)) /\ h < Len(handlers)) =>
              \A later \in (h + 1)..Len(handlers) :
                  (~Silent(MessageOf(later)) /\ handlers[later].pc = "returned")
                      => Cardinality(WrittenBy(later)) = 1

\* A request with an unknown method and, after it, a call of an unknown
\* tool were both answered with errors, and the server had gone on to the
\* second after the first.
C18_Witness ==
    /\ Len(handlers) = 2
    /\ MessageOf(1).method = OddMethod
    /\ MessageOf(2).name = Some(OddTool)
    /\ Len(written) = 2
    /\ IsErrorResponse(1, 1, UnknownMethod(OddMethod))
    /\ IsErrorResponse(2, 2, UnknownTool(OddTool))

\* The task table after the mutation a journal entry records
Applied(T, entry) ==
    CASE entry.op = "updateTask" ->
            [T EXCEPT ![entry.id] = PatchedTask(T[entry.id], entry.patch, now)]
      [] entry.op = "completeTask" ->
            [T EXCEPT ![entry.id] = CompletedTask(T[entry.id], now)]
      [] entry.op = "createTask" ->
            Append(T, NewTask(Len(T) + 1, entry.id, None, entry.patch.estimatePoints, None, now))
      [] OTHER -> T

RECURSIVE Replay(_, _)
\* The task table after the mutations of the journal, one after another
Replay(T, entries) ==
    IF entries = <<>> THEN T ELSE Replay(Applied(T, Head(entries)), Tail(entries))

\* The project a journal entry's mutation belongs to
ProjectOf(entry) ==
    CASE entry.op = "createQuest" -> entry.id
      [] entry.op = "createTask" -> quests[entry.id].projectId
      [] OTHER -> quests[tasks[entry.id].questId].projectId

\* Journal entry i was written while another handler was between two
\* mutations of its own
InFlightTogether(i) ==
    \E k \in 1..Len(handlers) :
        /\ k # journal[i].by
        /\ \E a, b \in 1..Len(journal) :
              a < i /\ i < b /\ journal[a].by = k /\ journal[b].by = k

\* C19: whatever the interleaving of the tool calls in flight, no update
\* is lost: the task table is the result of the successful mutations in
\* the order they were made, each applied to the table the one before
\* left; and every project a mutation touched stores the health score
\* computed from the tasks the project has now.
C19_MutationsAreAtomic ==
    /\ tasks = Replay(<<FirstTask>>, journal)
    /\ \A i \in 1..Len(journal) :
          projects[ProjectOf(journal[i])].healthScore
              = HealthOf(getProjectPulse(tasks, quests, ProjectOf(journal[i]), now))

\* While create_task for project 1 waited between creating the backlog
\* quest and inserting the task, complete_task finished the project's
\* first task; then the new task was inserted.
C19_Witness ==
    /\ Len(journal) = 3
    /\ journal[1].op = "createQuest"
    /\ journal[2].op = "completeTask"
    /\ journal[3].op = "createTask"
    /\ InFlightTogether(2)
    /\ \A i \in 1..3 : ProjectOf(journal[i]) = 1
    /\ Len(tasks) = 2
    /\ tasks[1].state = "done"

\* typeof arg !== "string"
NotAString(arg) == arg = None \/ Get(arg).type # "string"

\* A required argument of the tool is missing or of the wrong type
InvalidArguments(m) ==
    \/ m.name = Some(GetProjectPulse) /\ NotAString(m.args.project_id)
    \/ m.name = Some(CreateTaskTool)
          /\ (NotAString(m.args.title)
                \/ (m.args.project_id = None /\ m.args.quest_id = None))
    \/ m.name \in {Some(UpdateTaskTool), Some(CompleteTaskTool)} /\ NotAString(m.args.task_id)
    \/ m.name = Some(LogSessionEvent)
          /\ (NotAString(m.args.cwd) \/ NotAString(m.args.command))

Rejected(h) ==
    /\ MessageOf(h).method = ToolsCall
    /\ MessageOf(h).id # None
    /\ InvalidArguments(MessageOf(h))

\* C20: a tools/call whose required argument is missing or not a string
\* throws before it has called any Store method and writes nothing to the
\* Store; once handle() has returned, one error response answers it; and
\* while only such calls (or messages that are not answered) have
\* arrived, the Store is as it was.
C20_InvalidArgumentsRejected ==
    /\ \A h \in 1..Len(handlers) :
          Rejected(h) =>
              /\ handlers[h].db = <<>>
              /\ handlers[h].outcome # None
              /\ Get(handlers[h].outcome).kind = "error"
              /\ \A i \in 1..Len(journal) : journal[i].by # h
              /\ (handlers[h].pc = "returned" =>
                     /\ Cardinality(WrittenBy(h)) = 1
                     /\ \A i \in WrittenBy(h) : HasMember(written[i].payload, <<"e", "r", "r", "o", "r">>))
    /\ (\A h \in 1..Len(handlers) : Rejected(h) \/ Silent(MessageOf(h))) =>
          /\ projects = FirstProjects
          /\ quests = <<FirstQuest>>
          /\ tasks = <<FirstTask>>
          /\ events = <<>>

\* complete_task with a number for task_id and create_task without a
\* title were both answered with errors, and the Store is as it was.
C20_Witness ==
    /\ Len(handlers) = 2
    /\ MessageOf(1).name = Some(CompleteTaskTool)
    /\ MessageOf(1).args.task_id = Some(Num(1))
    /\ MessageOf(2).name = Some(CreateTaskTool)
    /\ MessageOf(2).args.title = None
    /\ Rejected(1)
    /\ Rejected(2)
    /\ Len(written) = 2
    /\ tasks = <<FirstTask>>

----------------------------------------------------------------------------
(* The server on tools/call requests that refer to a project, a quest or  *)
(* a task by id                                                           *)

\* A tools/call for every tool that takes an id: with an id of the Store
\* and with one that no record has
ReferenceRequests ==
    << Call_(GetProjectPulse, [NoArgs EXCEPT !.project_id = Some(Str(1))]),
       Call_(GetProjectPulse, [NoArgs EXCEPT !.project_id = Some(Str(AbsentId))]),
       Call_(ListTasks, [NoArgs EXCEPT !.project_id = Some(Str(1))]),
       Call_(ListTasks, [NoArgs EXCEPT !.project_id = Some(Str(AbsentId))]),
       Call_(CreateTaskTool, [NoArgs EXCEPT !.title = Some(ATitle), !.quest_id = Some(Str(1))]),
       Call_(CreateTaskTool, [NoArgs EXCEPT !.title = Some(ATitle), !.quest_id = Some(Str(AbsentId))]),
       Call_(CreateTaskTool, [NoArgs EXCEPT !.title = Some(ATitle), !.project_id = Some(Str(2))]),
       Call_(CreateTaskTool, [NoArgs EXCEPT !.title = Some(ATitle), !.project_id = Some(Str(AbsentId))]),
       Call_(UpdateTaskTool, [NoArgs EXCEPT !.task_id = Some(Str(1)), !.state = Some(Str("doing"))]),
       Call_(UpdateTaskTool, [NoArgs EXCEPT !.task_id = Some(Str(AbsentId)), !.state = Some(Str("doing"))]),
       Call_(CompleteTaskTool, [NoArgs EXCEPT !.task_id = Some(Str(1))]),
       Call_(CompleteTaskTool, [NoArgs EXCEPT !.task_id = Some(Str(AbsentId))]),
       Call_(GetNextTask, [NoArgs EXCEPT !.project_id = Some(Str(1))]),
       Call_(GetNextTask, [NoArgs EXCEPT !.project_id = Some(Str(AbsentId))]) >>

\* One such request, or two of them one after the other
ReferenceScripts ==
    { <<Sent(Some(1), ReferenceRequests[a])>> : a \in 1..Len(ReferenceRequests) }
    \cup { <<Sent(Some(1), ReferenceRequests[a]), Sent(Some(2), ReferenceRequests[b])>> :
             a \in 1..Len(ReferenceRequests), b \in 1..Len(ReferenceRequests) }

ReferenceInit ==
    /\ FramerIdle
    /\ quests = <<FirstQuest>>
    /\ tasks = <<FirstTask>>
    /\ projects = FirstProjects
    /\ now = StartTime
    /\ last = Call("createTask", 1, Some(FirstTask))
    /\ env \in Environments
    /\ inbox \in ReferenceScripts
    /\ handlers = <<>>
    /\ written = <<>>
    /\ stdout = <<>>
    /\ events = <<>>
    /\ journal = <<>>

SpecReferences == ReferenceInit /\ [][ServerNext]_vars

\* The argument is a string that is the id of no row of the table
Unresolved(arg, table) == IsString(arg) /\ Get(arg).v \notin 1..Len(table)

\* The tools/call refers to a project, quest or task that does not exist
\* (create_task looks at project_id only when quest_id is not given)
Dangling(m) ==
    /\ m.method = ToolsCall
    /\ \/ /\ m.name \in {Some(GetProjectPulse), Some(ListTasks), Some(GetNextTask)}
          /\ Unresolved(m.args.project_id, projects)
       \/ /\ m.name = Some(CreateTaskTool)
          /\ IsString(m.args.title)
          /\ \/ Unresolved(m.args.quest_id, quests)
             \/ m.args.quest_id = None /\ Unresolved(m.args.project_id, projects)
       \/ /\ m.name \in {Some(UpdateTaskTool), Some(CompleteTaskTool)}
          /\ Unresolved(m.args.task_id, tasks)

\* C21: for every tool that takes a project_id, quest_id or task_id, a call
\* whose id does not resolve to a record settles with an error and never
\* with a success result, and the mutation journal of the Store has no
\* entry made by it.
C21_DanglingIdIsAnError ==
    \A h \in 1..Len(handlers) :
        (Dangling(MessageOf(h)) /\ handlers[h].outcome # None) =>
            /\ Get(handlers[h].outcome).kind = "error"
            /\ \A i \in 1..Len(journal) : journal[i].by # h

\* What does hold: a call with a dangling id never writes to the Store,
\* and get_project_pulse, create_task, update_task and complete_task
\* settle with an error
C21_DanglingIdWritesNothing ==
    \A h \in 1..Len(handlers) :
        (Dangling(MessageOf(h)) /\ handlers[h].outcome # None) =>
            /\ \A i \in 1..Len(journal) : journal[i].by # h
            /\ MessageOf(h).name \notin {Some(ListTasks), Some(GetNextTask)} =>
                  Get(handlers[h].outcome).kind = "error"

\* list_tasks was answered with a result for a project that does not exist
C21_Witness ==
    \E h \in 1..Len(handlers) :
        /\ Dangling(MessageOf(h))
        /\ MessageOf(h).name = Some(ListTasks)
        /\ handlers[h].outcome # None
        /\ Get(handlers[h].outcome).kind = "result"
        /\ WrittenBy(h) # {}

----------------------------------------------------------------------------
(* Claims about the importer, the listings and the pulse *)

\* C22: after importProjectsFromIndex every record of the file that has a
\* path is stored as exactly one project with that path (an existing one
\* updated in place, a new one created), and no two projects share a path
\* or a slug.
C22_ImportStoresEveryPath ==
    /\ last.op = "importProjectsFromIndex" =>
          \A r \in 1..Len(last.arg) :
              last.arg[r] # NoPath => Cardinality(ProjectWithPath(projects, last.arg[r])) = 1
    /\ \A i, j \in 1..Len(projects) :
          i # j => projects[i].path # projects[j].path /\ projects[i].slug # projects[j].slug

\* What does hold: ids, paths and slugs of the projects are unique, a
\* project keeps its path, and an import that fails has stopped at a new
\* path whose slug another project has
C22_PathsAndSlugsAreUnique ==
    /\ \A i \in 1..Len(projects) : projects[i].id = i
    /\ \A i, j \in 1..Len(projects) :
          i # j => projects[i].path # projects[j].path /\ projects[i].slug # projects[j].slug
    /\ (last.op = "importProjectsFromIndex" /\ ~last.ret) =>
          \E r \in 1..Len(last.arg) :
              /\ ProjectWithPath(projects, last.arg[r]) = {}
              /\ \E i \in 1..Len(projects) :
                    projects[i].slug = slugify(SlashesToDashes(last.arg[r]))

\* The index file was imported a second time, after a quest was created
C22_Witness ==
    /\ last.op = "importProjectsFromIndex"
    /\ Len(quests) > 0
    /\ now > StartTime
    /\ \E i \in 1..Len(projects) : projects[i].updatedAt = now

----------------------------------------------------------------------------
(* The listings of the Store *)

\* Every order in which ORDER BY priority DESC, updated_at DESC may return
\* the rows S
PriorityThenNewest(S, table) ==
    { rows \in [1..Cardinality(S) -> S] :
        /\ \A i, j \in 1..Cardinality(S) : i # j => rows[i] # rows[j]
        /\ \A i, j \in 1..Cardinality(S) :
              i < j => \/ table[rows[i]].priority > table[rows[j]].priority
                       \/ /\ table[rows[i]].priority = table[rows[j]].priority
                          /\ table[rows[i]].updatedAt >= table[rows[j]].updatedAt }

\* rows.map(toProject), rows.map(toQuest), rows.map(toTask)
Materialized(rows, table) == [i \in 1..Len(rows) |-> table[rows[i]]]

listProjects ==
    /\ \E rows \in NewestFirst(1..Len(projects), projects) :
          last' = Call("listProjects", None, Materialized(rows, projects))
    /\ UNCHANGED <<projects, quests, tasks, now, framerVars>>

\* listQuests(projectId?): the ORDER BY of the query without a project has
\* updated_at alone
listQuests(projectId) ==
    /\ \E rows \in (IF TruthyId(projectId)
                    THEN PriorityThenNewest({ q \in 1..Len(quests) :
                                                quests[q].projectId = Get(projectId) }, quests)
                    ELSE NewestFirst(1..Len(quests), quests)) :
          last' = Call("listQuests", projectId, Materialized(rows, quests))
    /\ UNCHANGED <<projects, quests, tasks, now, framerVars>>

listTasks(filter) ==
    /\ \E rows \in NewestFirst(ListedTasks(filter.projectId, filter.state), tasks) :
          last' = Call("listTasks", filter, Materialized(rows, tasks))
    /\ UNCHANGED <<projects, quests, tasks, now, framerVars>>

\* The most quests and tasks of the listed Store
MaxListed == 2

ListPriorities == {1, 3}
ListProjectFilters == {None, Some(1), Some(2), Some(AbsentId)}
ListTaskFilters ==
    { [projectId |-> p, state |-> s] :
        p \in ListProjectFilters, s \in {None, Some("todo"), Some("done")} }

\* The Store after the import of the index file
ListInit ==
    /\ FramerIdle
    /\ ServerIdle
    /\ projects = ImportedProjects
    /\ quests = <<>>
    /\ tasks = <<>>
    /\ now = StartTime
    /\ last = Call("importProjectsFromIndex", <<NoPath, PathC, PathA_B, PathAB>>, FALSE)

AddQuest ==
    /\ Len(quests) < MaxListed
    /\ \E p \in 1..Len(projects), priority \in ListPriorities :
          createQuest(p, OtherTitle, None, Some(priority))
    /\ UNCHANGED serverVars
AddTask ==
    /\ Len(tasks) < MaxListed
    /\ \E q \in 1..Len(quests), s \in {None, Some("done")} : createTask(q, s, None, None)
    /\ UNCHANGED serverVars
ListProjects_ ==
    /\ listProjects
    /\ UNCHANGED serverVars
ListQuests_ ==
    /\ \E p \in ListProjectFilters : listQuests(p)
    /\ UNCHANGED serverVars
ListTasks_ ==
    /\ \E filter \in ListTaskFilters : listTasks(filter)
    /\ UNCHANGED serverVars

ListNext ==
    \/ AddQuest
    \/ AddTask
    \/ Tick
    \/ ListProjects_
    \/ ListQuests_
    \/ ListTasks_

SpecList == ListInit /\ [][ListNext]_vars

\* The list holds every row of S once and nothing else
ExactlyRows(list, S, table) ==
    /\ Len(list) = Cardinality(S)
    /\ \A i \in S : \E k \in 1..Len(list) : list[k] = table[i]

RecentFirst(list) ==
    \A i, j \in 1..Len(list) : i < j => list[i].updatedAt >= list[j].updatedAt

PriorityThenRecentFirst(list) ==
    \A i, j \in 1..Len(list) :
        i < j => \/ list[i].priority > list[j].priority
                 \/ /\ list[i].priority = list[j].priority
                    /\ list[i].updatedAt >= list[j].updatedAt

\* The tasks a filter selects: of the project, if one is given, and in the
\* state, if one is given
MatchingTasks(filter) ==
    { i \in 1..Len(tasks) :
        /\ filter.projectId # None => quests[tasks[i].questId].projectId = Get(filter.projectId)
        /\ filter.state # None => tasks[i].state = Get(filter.state) }

MatchingQuests(projectId) ==
    { q \in 1..Len(quests) : projectId # None => quests[q].projectId = Get(projectId) }

ListsOtherThanAllQuests ==
    /\ last.op = "listProjects" =>
          ExactlyRows(last.ret, 1..Len(projects), projects) /\ RecentFirst(last.ret)
    /\ last.op = "listTasks" =>
          ExactlyRows(last.ret, MatchingTasks(last.arg), tasks) /\ RecentFirst(last.ret)
    /\ last.op = "listQuests" => ExactlyRows(last.ret, MatchingQuests(last.arg), quests)
    /\ (last.op = "listQuests" /\ last.arg # None) => PriorityThenRecentFirst(last.ret)

\* C23: listProjects and listTasks, with any combination of the project
\* and state filters, return exactly the matching records, most recently
\* updated first; listQuests, with or without a project filter, returns
\* the matching quests by descending priority and then by descending
\* updatedAt.
C23_ListingsAreOrdered ==
    /\ ListsOtherThanAllQuests
    /\ last.op = "listQuests" => PriorityThenRecentFirst(last.ret)

\* What does hold: the quests of all projects come most recently updated
\* first, whatever their priority
C23_AllQuestsAreRecentFirst ==
    /\ ListsOtherThanAllQuests
    /\ (last.op = "listQuests" /\ last.arg = None) => RecentFirst(last.ret)

\* All quests were listed and one of lower priority, updated later, came
\* before one of higher priority
C23_Witness ==
    /\ last.op = "listQuests"
    /\ last.arg = None
    /\ Len(last.ret) = 2
    /\ last.ret[1].priority < last.ret[2].priority
    /\ last.ret[1].updatedAt > last.ret[2].updatedAt

----------------------------------------------------------------------------
(* getProject: the lookup of a project by id, slug or path *)

\* uid("proj") of the project created i-th: "proj_" and what stands for
\* the random part
IdText(i) == <<"p", "r", "o", "j", "_">> \o Decimal(i)

\* The project the query finds through the index of `field`
ProjectsBy(P, field, key) ==
    { i \in 1..Len(P) :
        CASE field = "id" -> IdText(P[i].id) = key
          [] field = "slug" -> P[i].slug = key
          [] field = "path" -> P[i].path = key }

\* A lookup that searches the index of path first
getProjectPathFirst(P, key) ==
    LET found == IF ProjectsBy(P, "path", key) # {} THEN ProjectsBy(P, "path", key)
                 ELSE IF ProjectsBy(P, "slug", key) # {} THEN ProjectsBy(P, "slug", key)
                 ELSE ProjectsBy(P, "id", key)
    IN  IF found = {} THEN None ELSE Some(P[CHOOSE i \in found : TRUE])

\* SELECT * FROM projects WHERE id = ? OR slug = ? OR path = ? LIMIT 1.
\* SQLite answers the OR of three indexed columns by searching the unique
\* indexes of id, slug and path in the order of the terms (MULTI-INDEX OR)
\* and LIMIT 1 keeps the first row that comes out.
getProjectRow(P, key) ==
    LET found == IF ProjectsBy(P, "id", key) # {} THEN ProjectsBy(P, "id", key)
                 ELSE IF ProjectsBy(P, "slug", key) # {} THEN ProjectsBy(P, "slug", key)
                 ELSE ProjectsBy(P, "path", key)
    IN  IF found = {} THEN None ELSE Some(P[CHOOSE i \in found : TRUE])

getProject(key) ==
    /\ last' = Call("getProject", key, getProjectRow(projects, key))
    /\ UNCHANGED <<projects, quests, tasks, now, framerVars>>

\* A path that is the id of the first project
IdPath == IdText(1)

\* A path whose slug is cut after SlugMax characters and ends with a dash,
\* and the path that is this slug
LongPath == <<"/">> \o [i \in 1..(SlugMax - 1) |-> "a"] \o <<"/", "b">>
SlugPath == slugify(SlashesToDashes(LongPath))

LookupFiles ==
    { <<PathC>>, <<IdPath>>, <<LongPath>>, <<SlugPath>>,
      <<PathC, IdPath, LongPath, SlugPath>>,
      <<SlugPath, LongPath, IdPath, PathC>> }

LookupKeys ==
    { IdText(1), IdText(2), IdText(3), PathC, slugify(SlashesToDashes(PathC)),
      slugify(SlashesToDashes(IdPath)), LongPath, SlugPath, slugify(SlugPath), <<"b">> }

LookupImport ==
    /\ \E file \in LookupFiles : importProjectsFromIndex(file)
    /\ UNCHANGED serverVars
GetProject ==
    /\ \E key \in LookupKeys : getProject(key)
    /\ UNCHANGED serverVars

LookupNext ==
    \/ LookupImport
    \/ GetProject

\* The empty Store
SpecLookup == Init /\ [][LookupNext]_vars

C24_SlugBeforePath ==
    /\ last.op = "getProject"
    /\ \E i \in ProjectsBy(projects, "slug", last.arg), j \in ProjectsBy(projects, "path", last.arg) :
          i # j /\ last.ret = Some(projects[i])

----------------------------------------------------------------------------
(* getProjectPulse as the Store returns it *)

\* "Create your first quest to start momentum."
NoRecommendation ==
    <<"C", "r", "e", "a", "t", "e", " ", "y", "o", "u", "r", " ", "f", "i", "r", "s", "t", " ", "q", "u", "e", "s", "t", " ", "t", "o", " ", "s", "t", "a", "r", "t", " ", "m", "o", "m", "e", "n", "t", "u", "m", ".">>

\* The pulse and its nextAction
WithNextAction(pulse, text) ==
    [f \in DOMAIN pulse \cup {"nextAction"} |-> IF f = "nextAction" THEN text ELSE pulse[f]]

\* A pulse that asks the Scorer for the tasks of all projects
projectPulseOfAll(pid) ==
    /\ \E next \in Recommendations(tasks, quests, projects, None) :
          last' = Call("getProjectPulse", pid,
                       WithNextAction(getProjectPulse(tasks, quests, pid, now),
                                      IF next = None THEN NoRecommendation
                                      ELSE ReasonText(Get(next).reason)))
    /\ UNCHANGED <<projects, quests, tasks, now, framerVars>>

\* getProjectPulse(projectId): nextAction is next?.reason ?? "Create ..."
projectPulse(pid) ==
    /\ \E next \in Recommendations(tasks, quests, projects, Some(pid)) :
          last' = Call("getProjectPulse", pid,
                       WithNextAction(getProjectPulse(tasks, quests, pid, now),
                                      IF next = None THEN NoRecommendation
                                      ELSE ReasonText(Get(next).reason)))
    /\ UNCHANGED <<projects, quests, tasks, now, framerVars>>

\* What total createTask calls, done of them followed by completeTask and
\* the others created blocked, leave in the first quest
CountedTasks(done, total) ==
    [i \in 1..total |->
        IF i <= done THEN CompletedTask(NewTask(i, 1, None, None, None, StartTime), StartTime)
        ELSE NewTask(i, 1, Some("blocked"), None, None, StartTime)]

\* Stores whose first project has up to MaxTotal tasks
CompletionInit ==
    /\ FramerIdle
    /\ ServerIdle
    /\ quests = <<FirstQuest>>
    /\ now = StartTime
    /\ \E total \in 0..MaxTotal, done \in 0..MaxTotal :
          /\ done <= total
          /\ tasks = CountedTasks(done, total)
          /\ projects = touchProjectByQuest(ImportedProjects, CountedTasks(done, total),
                                            <<FirstQuest>>, 1, StartTime)
    /\ last = Call("createQuest", 1, Some(FirstQuest))

Pulse ==
    /\ \E pid \in 1..Len(projects) : projectPulse(pid)
    /\ UNCHANGED serverVars

CompletionNext == Pulse

SpecCompletion == CompletionInit /\ [][CompletionNext]_vars

DoneOf(pid) == { i \in ProjectTasks(tasks, quests, pid) : tasks[i].state = "done" }

\* C25: getProjectPulse reports completionPercent = round(100 * done /
\* total) over all tasks of the project, joined through its quests, and 0
\* when the project has no tasks; the value is in 0..100.
C25_CompletionIsRoundedRatio ==
    last.op = "getProjectPulse" =>
        LET total == Cardinality(ProjectTasks(tasks, quests, last.arg))
            done == Cardinality(DoneOf(last.arg))
        IN  /\ last.ret.completionPercent \in 0..100
            /\ last.ret.completionPercent =
                  (IF total = 0 THEN 0 ELSE RoundDiv(100 * done, total))

\* What does hold: the value is in 0..100, is 0 without tasks, and is the
\* rounded ratio or, where the double (done / total) * 100 falls just
\* below a half, one less
C25_CompletionIsNearTheRatio ==
    last.op = "getProjectPulse" =>
        LET total == Cardinality(ProjectTasks(tasks, quests, last.arg))
            done == Cardinality(DoneOf(last.arg))
            exact == IF total = 0 THEN 0 ELSE RoundDiv(100 * done, total)
        IN  /\ last.ret.completionPercent \in 0..100
            /\ last.ret.completionPercent \in {exact, exact - 1}
            /\ total < MaxTotal => last.ret.completionPercent = exact

\* 23 of 40 tasks are done and the pulse reports 57 percent
C25_Witness ==
    /\ last.op = "getProjectPulse"
    /\ Cardinality(ProjectTasks(tasks, quests, last.arg)) = 40
    /\ Cardinality(DoneOf(last.arg)) = 23
    /\ last.ret.completionPercent = 57

----------------------------------------------------------------------------
(* The pulse of projects whose tasks are created, patched and completed *)

\* The most tasks of the pulsed Store
MaxPulsed == 2

SecondQuest ==
    [id |-> 2, projectId |-> 2, title |-> OtherTitle, state |-> "active",
     priority |-> 3, updatedAt |-> StartTime]

\* The Store after the import and a createQuest in each project
PulseInit ==
    /\ FramerIdle
    /\ ServerIdle
    /\ quests = <<FirstQuest, SecondQuest>>
    /\ tasks = <<>>
    /\ projects = touchProjectByQuest(
                     touchProjectByQuest(ImportedProjects, <<>>, <<FirstQuest, SecondQuest>>,
                                         1, StartTime),
                     <<>>, <<FirstQuest, SecondQuest>>, 2, StartTime)
    /\ now = StartTime
    /\ last = Call("createQuest", 2, Some(SecondQuest))

PulsePatches ==
    { [state |-> s, estimatePoints |-> None, actualPoints |-> a, blockers |-> None] :
        s \in {None, Some("done"), Some("doing")}, a \in {None, Some(3)} }

PulseCreateTask ==
    /\ Len(tasks) < MaxPulsed
    /\ \E q \in 1..Len(quests), s \in {None, Some("done")}, e \in {None, Some(5)} :
          createTask(q, s, e, None)
    /\ UNCHANGED serverVars
PulseUpdateTask ==
    /\ \E t \in 1..Len(tasks), patch \in PulsePatches : updateTask(t, patch)
    /\ UNCHANGED serverVars
PulseCompleteTask ==
    /\ \E t \in 1..Len(tasks) : completeTask(t)
    /\ UNCHANGED serverVars

\* The wall clock moves on by ten days or by eleven
PulseTick ==
    /\ \E d \in {TenDays, TenDays + 1} :
          /\ now + d <= MaxNow
          /\ now' = now + d
    /\ last' = Call("tick", None, None)
    /\ UNCHANGED <<projects, quests, tasks, framerVars, serverVars>>

PulseNext ==
    \/ PulseCreateTask
    \/ PulseUpdateTask
    \/ PulseCompleteTask
    \/ PulseTick
    \/ Pulse

SpecPulse == PulseInit /\ [][PulseNext]_vars

\* What the task contributes to xpEarned
Earned(task) ==
    IF task.state # "done" THEN 0
    ELSE IF task.actualPoints # None THEN Get(task.actualPoints)
    ELSE task.estimatePoints

RECURSIVE EarnedUpTo(_, _)
\* The contributions of the tasks 1..n that belong to the project
EarnedUpTo(n, pid) ==
    IF n = 0 THEN 0
    ELSE EarnedUpTo(n - 1, pid)
           + (IF quests[tasks[n].questId].projectId = pid THEN Earned(tasks[n]) ELSE 0)

\* C26: getProjectPulse reports xpEarned as the sum, over exactly the
\* project's tasks in state done, of actualPoints when set and of
\* estimatePoints otherwise; tasks in other states contribute nothing.
C26_XpEarnedSumsDoneTasks ==
    last.op = "getProjectPulse" => last.ret.xpEarned = EarnedUpTo(Len(tasks), last.arg)

\* The project has a done task with actual points that differ from its
\* estimate, a done task without actual points, and its pulse was taken
C26_Witness ==
    /\ last.op = "getProjectPulse"
    /\ \E i, j \in ProjectTasks(tasks, quests, last.arg) :
          /\ tasks[i].state = "done" /\ tasks[j].state = "done"
          /\ tasks[i].actualPoints # None
          /\ Get(tasks[i].actualPoints) # tasks[i].estimatePoints
          /\ tasks[j].actualPoints = None
          /\ last.ret.xpEarned = Get(tasks[i].actualPoints) + tasks[j].estimatePoints

\* C27: getProjectPulse reports stale = true exactly when the project has
\* no tasks or the latest updatedAt of its tasks is more than ten days
\* before now; so the pulse of a project right after a task mutation in it
\* is not stale.
C27_StaleIffNoRecentUpdate ==
    /\ last.op = "getProjectPulse" =>
          LET mine == ProjectTasks(tasks, quests, last.arg)
          IN  last.ret.stale <=>
                 (mine = {} \/ \A i \in mine : now - tasks[i].updatedAt > TenDays)
    /\ (last.op \in TaskMutations /\ IsSome(last.ret)) =>
          ~getProjectPulse(tasks, quests, Owner, now).stale

\* The latest update of the project's tasks is exactly ten days old and
\* the pulse taken is not stale
C27_Witness ==
    /\ last.op = "getProjectPulse"
    /\ ProjectTasks(tasks, quests, last.arg) # {}
    /\ \A i \in ProjectTasks(tasks, quests, last.arg) : now - tasks[i].updatedAt = TenDays
    /\ ~last.ret.stale

\* The latest update is eleven days old and the pulse taken is stale
C27_StaleAfterElevenDays ==
    /\ last.op = "getProjectPulse"
    /\ \E i \in ProjectTasks(tasks, quests, last.arg) : now - tasks[i].updatedAt = TenDays + 1
    /\ last.ret.stale

\* The reason texts getNextTaskRecommendation(pid) may return, or the
\* fixed message where it returns nothing
NextActions(pid) ==
    { IF r = None THEN NoRecommendation ELSE ReasonText(Get(r).reason) :
        r \in Recommendations(tasks, quests, projects, Some(pid)) }

\* C28: the nextAction of getProjectPulse is the reason of
\* getNextTaskRecommendation for the same project, or the fixed message
\* "Create your first quest to start momentum." when there is no
\* recommendation; a project without tasks has the pulse completionPercent
\* 0, stale true, xpEarned 0 and that message as nextAction.
C28_NextActionIsTheReason ==
    last.op = "getProjectPulse" =>
        /\ last.ret.nextAction \in NextActions(last.arg)
        /\ (\A i \in ProjectTasks(tasks, quests, last.arg) :
               tasks[i].state \notin {"todo", "doing", "review"}) =>
              last.ret.nextAction = NoRecommendation
        /\ ProjectTasks(tasks, quests, last.arg) = {} =>
              /\ last.ret.completionPercent = 0
              /\ last.ret.stale
              /\ last.ret.xpEarned = 0
              /\ last.ret.nextAction = NoRecommendation

\* The pulse of a project names its own task although a task of the
\* other project scores higher
C28_Witness ==
    /\ last.op = "getProjectPulse"
    /\ \E i \in ProjectTasks(tasks, quests, last.arg) :
          /\ last.ret.nextAction = ReasonText(<<"Push", i, tasks[i].questId>>)
          /\ \E j \in 1..Len(tasks) :
                /\ j \notin ProjectTasks(tasks, quests, last.arg)
                /\ CandidateOf(tasks, quests, j).score > CandidateOf(tasks, quests, i).score
                /\ tasks[j].state \in {"todo", "doing", "review"}

\* The pulse of a project without tasks was taken
C28_EmptyProject ==
    /\ last.op = "getProjectPulse"
    /\ ProjectTasks(tasks, quests, last.arg) = {}
    /\ Len(tasks) > 0
    /\ last.ret.nextAction = NoRecommendation

\* The step starts the handler of a request (a message with an id) that
\* is a tools/call of log_session_event whose cwd and command are strings
LogsAnEvent ==
    /\ Len(handlers') = Len(handlers) + 1
    /\ LET m == handlers'[Len(handlers')].msg
       IN  /\ m.id # None
           /\ m.method = ToolsCall
           /\ m.name = Some(LogSessionEvent)
           /\ ~NotAString(m.args.cwd)
           /\ ~NotAString(m.args.command)

\* C29: the SessionEvent records are an append-only log: a
\* log_session_event call adds exactly one record after the ones there
\* are, and no other step of the server changes the log, so an event once
\* logged is never changed or removed.
C29_EventsAreAppendOnly ==
    [][ /\ LogsAnEvent =>
              /\ Len(events') = Len(events) + 1
              /\ SubSeq(events', 1, Len(events)) = events
              /\ \A i \in 1..Len(events) : events[i].id # events'[Len(events')].id
        /\ ~LogsAnEvent => events' = events ]_vars

\* Two events were logged, one after the other
C29_Witness ==
    /\ Len(events) = 2
    /\ events[1].id # events[2].id
    /\ \E h \in 1..Len(handlers) : MessageOf(h).name = Some(LogSessionEvent)

\* C30: every successful quest or task mutation sets the updatedAt of the
\* owning project to the time of the mutation, also when the recomputed
\* healthScore equals the one stored before; no step of the Store makes a
\* project's updatedAt smaller.
C30_TouchBumpsUpdatedAt ==
    [][ /\ (last'.op \in TaskMutations \cup QuestMutations /\ IsSome(last'.ret)) =>
              LET pid == IF last'.op \in QuestMutations THEN Get(last'.ret).projectId
                         ELSE quests'[Get(last'.ret).questId].projectId
              IN  projects'[pid].updatedAt = now'
        /\ Len(projects') >= Len(projects)
        /\ \A p \in 1..Len(projects) : projects'[p].updatedAt >= projects[p].updatedAt ]_vars

\* updateQuest on a project without tasks, days after the quest was
\* created: the health score is 0 as before and updatedAt is now
C30_Witness ==
    /\ last.op = "updateQuest"
    /\ IsSome(last.ret)
    /\ ProjectTasks(tasks, quests, Owner) = {}
    /\ now > StartTime
    /\ projects[Owner].healthScore = 0
    /\ projects[Owner].updatedAt = now

----------------------------------------------------------------------------
(* Further claims about the Recommendation Scorer *)

\* C31: the reason of a recommendation is made from the winning candidate
\* alone: "Unblock {title} in {project}." with the winner's task and its
\* project when the winner has a blocker, otherwise "Push {title} ({quest})
\* forward." with the winner's task and its quest.
C31_ReasonIsTheWinners ==
    (Recommended /\ last.ret # None) =>
        LET top == Get(last.ret)
            task == tasks[top.taskId]
        IN  /\ Len(task.blockers) > 0 =>
                  top.reason = <<"Unblock", task.id, quests[task.questId].projectId>>
            /\ Len(task.blockers) = 0 =>
                  top.reason = <<"Push", task.id, task.questId>>

\* The winner has a blocker and the reason is the "Unblock" text of its
\* own task and project, while the other candidate has none
C31_Witness ==
    /\ Recommended
    /\ last.ret # None
    /\ Len(tasks[Get(last.ret).taskId].blockers) > 0
    /\ Get(last.ret).reason[1] = "Unblock"
    /\ Get(last.ret).reason[2] = Get(last.ret).taskId
    /\ \E j \in OpenUnder(last.arg) :
          /\ j # Get(last.ret).taskId
          /\ tasks[j].blockers = <<>>
          /\ quests[tasks[j].questId].projectId # Get(last.ret).projectId

----------------------------------------------------------------------------
(* Further claims about the framer *)

\* C32: for every chunk the "data" handler's loop over the buffered bytes
\* ends and the handler returns to wait for the next chunk, also after a
\* header whose Content-Length is not a number, is negative or is empty;
\* what it leaves in the buffer is at most an incomplete frame.
C32_HandlerReturns ==
    /\ ~hung
    /\ FrameStep(buffer, 0).go = "break"

\* What does hold: the handler returns on every chunk of every stream
\* whose Content-Length values are numbers, negative or empty, and then
\* leaves at most an incomplete frame; it does not return once the header
\* with the value "x" is complete
C32_ReturnsUnlessNotANumber ==
    /\ hung => (sent[1] = BadLengthFrame /\ dispatched = <<>>)
    /\ ~hung => FrameStep(buffer, 0).go = "break"
    /\ (sent[1] # BadLengthFrame /\ pending = <<>>) => ~hung

\* The header "Content-Length: x" has arrived and the loop does not end
C32_Witness ==
    /\ hung
    /\ sent[1] = BadLengthFrame
    /\ IndexOf(buffer, HeaderEndMark) # -1

----------------------------------------------------------------------------
(* Further claims about the MCP server *)

\* A get_next_task request and, after it, a message that is no tool call
PipelineInit ==
    /\ AdvisorInit
    /\ inbox[2].method # ToolsCall

\* No create_task is in flight on these scripts
PipelineNext ==
    \/ Dispatch
    \/ \E h \in 1..Len(handlers), outcome \in AdvisorOutcomes : AdvisorResponds(h, outcome)
    \/ \E h \in 1..Len(handlers) : Resume(h)

\* The event loop runs every callback that is ready; nothing makes the
\* advisor service answer
SpecPipeline ==
    /\ PipelineInit /\ [][PipelineNext]_vars
    /\ WF_vars(Dispatch)
    /\ \A h \in 1..MaxMessages : WF_vars(Resume(h))

\* Handler h is suspended in `await fetch(...)`
WaitsOnAdvisor(h) == h <= Len(handlers) /\ handlers[h].pc = "fetching"

\* Handler h was started on a ping and has written its response
PingAnswered(h) ==
    /\ h <= Len(handlers)
    /\ MessageOf(h).method = Ping
    /\ \E i \in WrittenBy(h) : HasMember(written[i].payload, <<"r", "e", "s", "u", "l", "t">>)

\* C33: while a tools/call handler is suspended waiting on the advisor
\* service, the framer can hand over the next message; a ping that follows
\* get_next_task is answered even if the advisor service never answers,
\* and it is answered in the step that dispatches it, whatever the state
\* of the earlier call.
C33_LaterFramesAreNotHeldBack ==
    /\ [](\A h \in 1..MaxMessages :
            (WaitsOnAdvisor(h) /\ inbox # <<>>) => ENABLED Dispatch)
    /\ [](\A h \in 1..MaxMessages :
            (h <= Len(handlers) /\ MessageOf(h).method = Ping /\ MessageOf(h).id # None)
                => PingAnswered(h))
    /\ ((WaitsOnAdvisor(1) /\ inbox # <<>> /\ Head(inbox).method = Ping) ~> PingAnswered(2))

\* The ping with the id 2 was answered while get_next_task with the id 1
\* waited, and the response to the id 1 was written after it.
C33_Witness ==
    /\ Len(written) = 2
    /\ written[1].by = 2
    /\ written[2].by = 1
    /\ PingAnswered(2)
    /\ MessageOf(1).name = Some(GetNextTask)
    /\ handlers[1].advisor \in AdvisorOutcomes

\* One message that fails (the body "null", a method or a tool the server
\* does not know, a tool call that throws) and, after it, a well-formed
\* request with an id
FailureScripts ==
    { <<failing, Sent(Some(2), request)>> :
        failing \in { JNull,
                      Sent(Some(1), Plain(OddMethod)),
                      Sent(Some(1), Call_(OddTool, NoArgs)),
                      Sent(Some(1), Call_(UpdateTaskTool, [NoArgs EXCEPT !.task_id = Some(Str(AbsentId))])),
                      Sent(Some(1), Call_(CreateTaskTool, [NoArgs EXCEPT !.title = Some(ATitle),
                                                                         !.quest_id = Some(Str(AbsentId))])) },
        request \in { Plain(Ping),
                      Plain(ToolsList),
                      Call_(ListProjects, NoArgs),
                      Call_(GetNextTask, NoArgs),
                      Call_(CompleteTaskTool, [NoArgs EXCEPT !.task_id = Some(Str(1))]),
                      Call_(CreateTaskTool, [NoArgs EXCEPT !.title = Some(ATitle),
                                                           !.project_id = Some(Str(1))]) } }

\* The server without OPENAI_API_KEY, on those scripts
FailureInit ==
    /\ FramerIdle
    /\ quests = <<FirstQuest>>
    /\ tasks = <<FirstTask>>
    /\ projects = FirstProjects
    /\ now = StartTime
    /\ last = Call("createTask", 1, Some(FirstTask))
    /\ env = [apiKey |-> FALSE, provider |-> "openai"]
    /\ inbox \in FailureScripts
    /\ handlers = <<>>
    /\ written = <<>>
    /\ stdout = <<>>
    /\ events = <<>>
    /\ journal = <<>>

\* No request goes to the advisor service on these scripts
FailureNext ==
    \/ Dispatch
    \/ \E h \in 1..Len(handlers) : ContinueCreateTask(h)
    \/ \E h \in 1..Len(handlers) : Resume(h)
    \/ \E h \in 1..Len(handlers) : Exit(h)

\* The event loop runs every callback that is ready
SpecFailures ==
    /\ FailureInit /\ [][FailureNext]_vars
    /\ WF_vars(Dispatch)
    /\ \A h \in 1..MaxMessages : WF_vars(ContinueCreateTask(h)) /\ WF_vars(Resume(h))

\* The request handler h was started on has been answered with a result
AnsweredWithResult(h) ==
    /\ h <= Len(handlers)
    /\ \E i \in WrittenBy(h) : HasMember(written[i].payload, <<"r", "e", "s", "u", "l", "t">>)

C34_ErrorsOfRequestsAreSurvived ==
    /\ [](Running \/ handlers[1].msg = JNull)
    /\ ((Len(handlers) = 1 /\ handlers[1].msg # JNull /\ inbox # <<>>)
            ~> (AnsweredWithResult(2) /\ AnsweredWithError(1)))

\* The body "null" was handed to handle(), whose promise was rejected; the
\* process has ended and the ping that arrived after it is still unread.
C34_Witness ==
    /\ ~Running
    /\ handlers[1].msg = JNull
    /\ Len(inbox) = 1
    /\ inbox[1].method = Ping
    /\ written = <<>>

\* The quests of project p whose title is "general backlog" in lower case
BacklogsOf(p) ==
    { q \in 1..Len(quests) :
        /\ quests[q].projectId = p
        /\ ToLowerCase(quests[q].title) = ToLowerCase(GeneralBacklog) }

\* Handler h runs create_task with a title and a project_id and no quest_id
CreatesInBacklog(h) ==
    /\ MessageOf(h).method = ToolsCall
    /\ MessageOf(h).id # None
    /\ MessageOf(h).name = Some(CreateTaskTool)
    /\ IsString(MessageOf(h).args.title)
    /\ IsString(MessageOf(h).args.project_id)
    /\ ~IsString(MessageOf(h).args.quest_id)

\* C36: however the create_task calls that give only a project_id
\* interleave, no project has more than one quest titled "General Backlog"
\* in any case of letters, and every task those calls created belongs to
\* that quest of the project they named.
C36_OneBacklogPerProject ==
    /\ \A p \in 1..Len(projects) : Cardinality(BacklogsOf(p)) <= 1
    /\ \A i \in 1..Len(journal) :
          (journal[i].op = "createTask" /\ CreatesInBacklog(journal[i].by)) =>
              tasks[Len(tasks) - Cardinality({ k \in (i + 1)..Len(journal) : journal[k].op = "createTask" })].questId
                  \in BacklogsOf(Get(MessageOf(journal[i].by).args.project_id).v)

\* Two create_task calls for project 1 were in flight together: the second
\* was dispatched before the first inserted its task, and both tasks are in
\* the one backlog quest.
C36_Witness ==
    /\ Len(handlers) = 2
    /\ CreatesInBacklog(1) /\ CreatesInBacklog(2)
    /\ Len(journal) = 3
    /\ journal[1].op = "createQuest"
    /\ journal[2].op = "createTask"
    /\ journal[3].op = "createTask"
    /\ handlers[2].db = <<"listQuests", "createTask">>
    /\ Cardinality(BacklogsOf(1)) = 1
    /\ \A t \in 2..3 : tasks[t].questId \in BacklogsOf(1)

MutatingTools == {CreateTaskTool, UpdateTaskTool, CompleteTaskTool, LogSessionEvent}

\* The message has no id or is the notification
Unanswerable(m) == m.id = None \/ m.method = Initialized

\* C37: the step that hands a message without an id, or the notification
\* notifications/initialized, to handle() changes nothing in the Store,
\* whatever the tool it names; its handler has returned at once without a
\* call of the Store.
C37_NoIdLeavesStoreUnchanged ==
    [][(inbox # <<>> /\ inbox' = Tail(inbox) /\ Unanswerable(Head(inbox))) =>
          /\ UNCHANGED <<projects, quests, tasks, events, journal, now>>
          /\ handlers'[Len(handlers')].pc = "returned"
          /\ handlers'[Len(handlers')].db = <<>>]_vars

\* A create_task without an id, with a title and the project_id 1, was
\* handled: the Store holds the one quest and the one task it started with.
C37_Witness ==
    /\ Len(handlers) = 1
    /\ inbox = <<>>
    /\ MessageOf(1).id = None
    /\ MessageOf(1).name = Some(CreateTaskTool)
    /\ IsString(MessageOf(1).args.title)
    /\ IsString(MessageOf(1).args.project_id)
    /\ handlers[1].pc = "returned"
    /\ quests = <<FirstQuest>>
    /\ tasks = <<FirstTask>>
    /\ projects = FirstProjects
    /\ events = <<>>

ReadOnlyTools == {ListProjects, GetProjectPulse, ListTasks, GetNextTask}

\* A tools/call request, with an id, that names a read-only tool
ReadOnlyCall(m) ==
    /\ m.method = ToolsCall
    /\ m.id # None
    /\ m.name \in { Some(tool) : tool \in ReadOnlyTools }

\* What get_project_pulse returns for project id on the Store as it is
PulseResult(id) ==
    Result(JObj(<< Member(<<"p", "r", "o", "j", "e", "c", "t">>, ProjectJson(projects[id])),
                   Member(<<"p", "u", "l", "s", "e">>,
                          PulseJson(getProjectPulse(tasks, quests, id, now))) >>))

\* C38: no step of a handler of list_projects, get_project_pulse,
\* list_tasks or get_next_task changes a project, quest, task or session
\* event record, the projects' healthScore and updatedAt included; the
\* pulse get_project_pulse returns and the recommendation get_next_task
\* builds on are the ones computed from the tasks stored when the call is
\* made.
C38_ReadOnlyToolsWriteNothing ==
    [][\A h \in 1..MaxMessages :
          (/\ h <= Len(handlers')
           /\ (h > Len(handlers) \/ handlers'[h] # handlers[h])
           /\ ReadOnlyCall(handlers'[h].msg)) =>
              /\ UNCHANGED <<projects, quests, tasks, events, journal>>
              /\ (/\ h > Len(handlers)
                  /\ handlers'[h].msg.name = Some(GetProjectPulse)
                  /\ Get(handlers'[h].outcome).kind = "result") =>
                     handlers'[h].outcome = PulseResult(Get(handlers'[h].msg.args.project_id).v)
              /\ (h > Len(handlers) /\ handlers'[h].msg.name = Some(GetNextTask)) =>
                     handlers'[h].heuristic
                         \in Recommendations(tasks, quests, projects,
                                             StringOrNone(handlers'[h].msg.args.project_id))]_vars

\* complete_task finished the first task and get_project_pulse, called
\* after it, returned the pulse with that task done; the project row is the
\* one complete_task left.
C38_Witness ==
    /\ Len(handlers) = 2
    /\ MessageOf(1).name = Some(CompleteTaskTool)
    /\ ReadOnlyCall(MessageOf(2))
    /\ MessageOf(2).name = Some(GetProjectPulse)
    /\ handlers[2].pc = "returned"
    /\ tasks[1].state = "done"
    /\ handlers[2].outcome = PulseResult(1)
    /\ getProjectPulse(tasks, quests, 1, now).tasksDone = 1
    /\ projects = touchProjectByQuest(FirstProjects, tasks, quests, 1, now)

----------------------------------------------------------------------------
(* Further claims about the Store *)

\* The step is completeTask(t) on a task that is in state done
CompletesDone(t) ==
    /\ t \in 1..Len(tasks)
    /\ tasks[t].state = "done"
    /\ last'.op = "completeTask"
    /\ last'.arg = t

\* completionPercent and xpEarned of the project that owns task t are the
\* same after the step as before it
KeepsPulseOf(t) ==
    LET pid == quests[tasks[t].questId].projectId
        before == getProjectPulse(tasks, quests, pid, now)
        after == getProjectPulse(tasks', quests', pid, now')
    IN  /\ after.completionPercent = before.completionPercent
        /\ after.xpEarned = before.xpEarned

\* C40: completeTask on a task that is already done leaves the task's
\* state and actualPoints as they were, and the completionPercent and
\* xpEarned of the project that owns it.
C40_CompletingDoneTaskChangesNothing ==
    [][\A t \in 1..MaxPulsed :
          CompletesDone(t) =>
              /\ tasks'[t].state = tasks[t].state
              /\ tasks'[t].actualPoints = tasks[t].actualPoints
              /\ KeepsPulseOf(t)]_vars

\* completeTask on a task that is already done keeps its state, keeps
\* actualPoints when they were set and stores estimatePoints as
\* actualPoints when they were null; completionPercent and xpEarned of the
\* project stay as they were.
C40_CompletingDoneTaskKeepsPulse ==
    [][\A t \in 1..MaxPulsed :
          CompletesDone(t) =>
              /\ tasks'[t].state = "done"
              /\ tasks'[t].actualPoints =
                    IF tasks[t].actualPoints # None THEN tasks[t].actualPoints
                    ELSE Some(tasks[t].estimatePoints)
              /\ KeepsPulseOf(t)]_vars

\* completeTask was the last call, on a task whose actualPoints are those
\* an earlier updateTask stored and differ from its estimatePoints
C40_Witness ==
    /\ last.op = "completeTask"
    /\ last.ret # None
    /\ tasks[last.arg].actualPoints = Some(3)
    /\ tasks[last.arg].estimatePoints # 3

\* The most quests the Store holds under the mutations below
MaxOwned == 3

\* Mutations of quests and tasks in two projects, with ids that name a row
\* and ids that name none
OwnedCreateQuest ==
    /\ Len(quests) < MaxOwned
    /\ \E p \in 1..2 : createQuest(p, OtherTitle, None, None)
    /\ UNCHANGED serverVars
OwnedUpdateQuest ==
    /\ \E q \in 1..(Len(quests) + 1), patch \in LifeQuestPatches : updateQuest(q, patch)
    /\ UNCHANGED serverVars
OwnedCreateTask ==
    /\ Len(tasks) < MaxPulsed
    /\ \E q \in 1..(Len(quests) + 1) : createTask(q, None, None, None)
    /\ UNCHANGED serverVars
OwnedUpdateTask ==
    /\ \E t \in 1..(Len(tasks) + 1), s \in {None, Some("blocked")} :
          updateTask(t, [NoPatch EXCEPT !.state = s])
    /\ UNCHANGED serverVars
OwnedCompleteTask ==
    /\ \E t \in 1..(Len(tasks) + 1) : completeTask(t)
    /\ UNCHANGED serverVars

OwnedNext ==
    \/ OwnedCreateQuest
    \/ OwnedUpdateQuest
    \/ OwnedCreateTask
    \/ OwnedUpdateTask
    \/ OwnedCompleteTask
    \/ Tick

SpecOwned == PulseInit /\ [][OwnedNext]_vars

\* The project of the row the mutation of this step returned
OwnerOfStep ==
    IF last'.op \in QuestMutations THEN Get(last'.ret).projectId
    ELSE quests[Get(last'.ret).questId].projectId

\* C39: a quest or task mutation under a project changes no row of another
\* project, neither its healthScore nor its updatedAt, and no quest and no
\* task that belongs to another project; a mutation that fails on an id
\* that names no row changes no project, quest or task at all.
C39_MutationsStayInTheirProject ==
    [][last'.op \in TaskMutations \cup QuestMutations =>
          IF last'.ret = None
          THEN UNCHANGED <<projects, quests, tasks>>
          ELSE /\ \A p \in 1..Len(projects) :
                     p # OwnerOfStep => projects'[p] = projects[p]
               /\ \A q \in 1..Len(quests) :
                     quests[q].projectId # OwnerOfStep => quests'[q] = quests[q]
               /\ \A t \in 1..Len(tasks) :
                     quests[tasks[t].questId].projectId # OwnerOfStep => tasks'[t] = tasks[t]]_vars

\* Days after a task was created in each project, updateTask succeeded on
\* the task of project 1: project 1 was touched now and project 2 keeps the
\* updatedAt of the first day.
C39_Witness ==
    /\ last.op = "updateTask"
    /\ last.ret # None
    /\ now > StartTime
    /\ Len(tasks) = 2
    /\ quests[Get(last.ret).questId].projectId = 1
    /\ \E t \in 1..Len(tasks) : quests[tasks[t].questId].projectId = 2
    /\ projects[1].updatedAt = now
    /\ projects[2].updatedAt = StartTime

====
